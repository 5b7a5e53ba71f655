# Kernel Module Management: TLA+ models

Kernel Module Management (KMM) is a Kubernetes operator that builds, signs, loads
and unloads out-of-tree kernel modules on the nodes of a cluster. Its logic is a
set of controllers that share state only through API objects, each working on
copies of those objects that may be old by the time it writes. The models here
are about that: which orders of reads, writes, Pod completions, failures and
reboots are possible, and what they may never lead to.

## The system

| Part | State it keeps | Operations | Talks to |
|---|---|---|---|
| Module controller (`module_reconciler.go`) | Module finalizer, namespace label, Module status; one entry per Module in each node's NodeModulesConfig (NMC) `.spec.modules`, with the labels `module-configured` and `module-in-use` | select nodes, write the MIC, enable / disable the Module on a node, finalize | MIC, NMC, Nodes |
| MIC controller (`mic_reconciler.go`) | state of each image of a Module: unknown, exists, needs building, needs signing, does not exist | run pull Pods, copy results from the MBSC, ask for builds, rebuild trigger | pull Pods, MBSC |
| MBSC controller (`mbsc_reconciler.go`, `buildsign/`) | result of the build or sign of each image | create / replace / collect build and sign Pods | build Pods |
| NMC controller (`nmc_reconciler.go`) | NMC `.status.modules` (config, boot ID), worker Pods, node labels `kernel-module-ready` | record finished worker Pods, create loader / unloader Pods, collect labels and Pods | worker Pods, Node |
| Worker (`internal/worker`) | the kernel | modprobe, modprobe -r | - |
| Version label controller (`node_label_module_version_reconciler.go`) | node labels `version-worker-pod`, `version-schedule-pod` | move the labels towards the administrator's `version-module` label | Node, DaemonSet Pods |
| Device plugin and DRA controllers (`device_plugin_reconciler.go`, `dra_reconciler.go`) | a finalizer each, target labels on the nodes, one DaemonSet per Module version, DeviceClasses, their part of the Module status | deploy a section, garbage-collect old versions, tear down a section or a Module | DaemonSets, Nodes |
| Pod node label controller (`pod_node_label_reconciler.go`) | the device plugin and DRA ready labels of the nodes, Pod finalizer | add / remove the label as Pods come and go | Node, Pods |
| Preflight validation (`preflightvalidation_reconciler.go`, `preflight/`) | per-Module verdict for a kernel | run the image pipeline ahead of an upgrade | MIC |
| Kernel mapper and webhooks (`internal/module`, `internal/webhook`) | none | validation of Modules, first matching kernel mapping, merge of its settings | all of the above |
| Hub (`controllers/hub`, `manifestwork`, `cluster`, `statusupdater`) | one MIC and one ManifestWork per ManagedCluster, the status of the ManagedClusterModule | create, garbage-collect, count | clusters |
| ClusterClaim controller of the spokes (`node_kernel_clusterclaim.go`) | the claim that lists the kernels of a cluster | follow the nodes | hub |
| Event filters (`internal/filter`) | none | decide which events queue a key | all |

What is hard here:

* a Reconcile is a sequence of API calls on a local copy; the Module controller,
  the kubelet, the administrator and a reboot act between any two of them;
* every call can fail, and only an error or an event brings the controller back:
  a pass that leaves work and returns nil waits for ever;
* informer caches lag, also behind the controller's own writes, and most patches
  carry no resource version;
* a worker Pod's effect on the kernel and the report of it are two things: the
  Pod can be evicted, deleted or outlive a reboot;
* a finalizer, an in-use label and a Pod finalizer each hold up a deletion until
  somebody removes them.

`PROJECT.json` lists these hazards line by line with the properties that cover
them.

## Modules

| Module | Models |
|---|---|
| `NodeModules` | one node: the NMC controller, its worker Pods, the kernel, reboots, and the Module controller's writes to the NMC |
| `NodeModulesProofs` | its types, the truth of the status, loaders that fit it, and what holds when the controller rests |
| `VersionLabels` | the version label controller of one node, with lagging caches |
| `OrderedUpgrade` | what that controller promises: the abstract specification `VersionLabels` implements |
| `VersionLabelsProofs` | type correctness, the safety of the ordered upgrade and the refinement for all constants and caches of any age |
| `ImagePipeline` | the images of one Module: MIC and MBSC controllers, pull, build and sign Pods, the registry |
| `ImagePipelineProofs` | its types, what a reported image is worth, the user's images, when the two controllers may rest, and that build and sign take turns |
| `ModuleScheduling` | the Module controller over Modules, nodes and namespaces: NMC entries, MICs, the namespace label, finalizer and status |
| `ModuleSchedulingProofs` | its types, the namespace label, and entries that outlive no Module, with caches of any age |
| `ScheduledPods` | the device plugin and DRA controllers of one Module, side by side |
| `ScheduledPodsProofs` | nothing is left behind; sections and counts are right at rest |
| `PodNodeLabels` | the Pod node label controller: Pods of two roles and two versions on the nodes |
| `PodNodeLabelsProofs` | its types, no label without a Pod, and labels that are right at rest |
| `KernelMapping` | pure operators: the Module webhook, the kernel mapper, what the worker is told to load |
| `Preflight` | PreflightValidations over the Modules `KernelMapping` admits |
| `PreflightProofs` | its types, verdicts that are right at rest, and what the webhook's checks are worth to mapper and worker |
| `Hub` | a ManagedClusterModule, its clusters, and the spokes' ClusterClaims |
| `HubProofs` | what can be shipped early; ManifestWorks and status that are right at rest |
| `MC...` | constants of the instances of the module of that name |

The modules meet at the objects they share, and each writes the other side of
its own as an environment: the NMC entry that `ModuleScheduling` writes is
`spec` of `NodeModules`, and the labels `NodeModules` removes are
`CollectInUse` there; the MIC of `ModuleScheduling`, `Preflight` and `Hub` is the
one of `ImagePipeline`, whose answer is one step in them (`ImageAppears`,
`MICAnswers`); the worker and schedule labels of `VersionLabels` are
`WorkerLabel` in `ModuleScheduling` and `SchedulePods` / `UnschedulePods` in
`ScheduledPods`; the Pods of `ScheduledPods`' DaemonSets are those of
`PodNodeLabels`. `Preflight` extends `KernelMapping`.

### NodeModules

`spec`, `status`, `configured` and `inUse` are the NMC object; `pod` is the worker
Pod of each Module (its name is fixed by node and Module, so there is at most
one); `kernelMod` and `boot` are the real node and `node` what the API server
knows of it; `module` is the life of the Module object. `pc`, `copy`, `nodeCopy`
and `doomed` are the local state of the running Reconcile, `dirty` says that its
key is in the work queue.

`Reconcile` follows the code call by call:

| Action | Code |
|---|---|
| `Reconcile` | Get NMC and Node, list Pods, compute the new status and `podsToDelete` |
| `SyncStatusPatch`, `ReconcileFails` | the status patch, or its failure |
| `SyncStatusDelete` | deletion of the recorded Pods; any failure ends the pass |
| `ProcessModules` | the loops over spec entries and over statuses without spec; the set of Modules whose call fails is arbitrary |
| `UpdateLabels` | the early return for Modules the node's taints exclude |
| `GarbageCollectInUseLabels`, `GarbageCollectWorkerPods`, `UpdateNodeLabels` | the rest of the pass |
| `EnableModule`, `DisableModule`, `FinalizeRemove`, `FinalizeRelease` | the Module controller's writes |
| `PodStarts` ... `PodGone`, `WorkerActsUnseen` | kubelet and worker |
| `Reboot`, `NodeReports`, `NodeReady`, `TaintsChange` | the node |

Abstractions. A `ModuleConfig` is its kernel version, one value for its mandatory
fields (`image`) and one for its `omitempty` fields (`option`). The two calls of
`DeletePod` (drop the finalizer, delete) are one step. The Modules of one pass
are processed in one step, as their Pods are distinct objects; a status patch
that fails for one dropped status may be carried out by the next one's patch of
the whole list, which is the same as a smaller set of failures. Reads are
current: the staleness modelled is that of the local copies during a pass. The
`kernel-module-version-ready` label follows the ready label and is left out.
Two constants widen the environment: `RebootAnytime` lets the node reboot while a
successful loader is not yet recorded, `LateEffects` lets a worker change the
kernel without its Pod being seen to succeed.

### VersionLabels

The three labels of each Module (`moduleLabel`, `workerLabel`, `scheduleLabel`),
the ready labels and the device plugin / DRA Pods on the node, with the
informer's copies `nodeCache` and `podCache`. A Reconcile is two steps,
`StartReconcile` (read, decide by `labelActionTable`) and `updateNodeLabels` (read
the Node again, merge-patch the difference). Both copies may be of any age: the
code does not wait for its own last patch to reach the cache, and its patches
carry no resource version. Three history variables, which no action of the
controller looks at, record where that can do harm. A Module is `hurried` when
the administrator changes its label before the last change is carried out; it is
`overtaken` from the moment a decision about a hurried Module is taken on a copy
without the controller's own last patch. `missed` are the Pods on the node that
the list a worker label's removal was decided on did not have yet.

### ImagePipeline

`mic` and `mbsc` are the two API objects (spec and status of each image), `pull`
and `jobs` the Pods, `registry` what is pushed under an image's name and by whom.
`cache` is the manager's copy of all four kinds of objects: both controllers read
only from it, and it may be older than their own last writes. `micWork`,
`mbscWork` say that a key is queued; `collecting` that the MBSC controller stands
before its garbage collection.

| Action | Code |
|---|---|
| `handleMIC`, `ChangeTrigger` | the Module controller's writes to the MIC |
| `handleTrigger` | `handleImageRebuildTriggerGeneration`: delete the MBSC, then clear the states, which may fail |
| `MICReconcile` | the rest of the MIC controller's Reconcile: `updateStatusByPullPods`, `updateStatusByMBSC`, `processImagesSpecs` |
| `MICStops` | the same, ended by a failing call or a restart after any part of it |
| `MBSCReconcile` | `updateStatus` and `processImagesSpecs`, with the panic on a missing section and failing calls |
| `garbageCollect` | the end of that Reconcile |
| `DeliverMIC`, `DeliverMBSC`, `DeliverPods` | informers: the cache catches up, keys are queued |
| `JobGone` | the two finalizers of a build or sign Pod |
| `PullEnds` ... `LoseImage` | kubelet, registry, Kubernetes' garbage collector |

Abstractions. A section is its revision: 0 is none, and `GoodRevs` tells which
work. The hash of a Pod template is that revision and, for a sign, whether it
reads the image KMM built. Each image has a kernel of its own, so image and
action name a Pod. `mic.edits` counts the writes of the MIC's spec, as its resource
version would: an edit that is undone before the informer has delivered it is
still an event. A pull succeeds exactly if the registry has the image: copies
a node kept (`IfNotPresent`) are not modelled. The MIC controller's Reconcile is
one step: it reads from the cache, nobody else writes what it writes, and a step
of somebody else between two of its calls has the same effect before or after it,
as the cache may be behind; the steps at which it can end are those of
`MICStops`. The MBSC controller's is two, as it lists the Pods again before
collecting them. A merge patch is modelled as one: it sends the list of states
when the local copy changed it, and the server's answer replaces the copy.
When no name of `PullNames` is free the creation fails and is retried, as a
failing API call would be. `Dependable` restricts the environment for the
liveness run: pulls, jobs and the deletion of Pods fail only for a reason, and
`job.gcDelay` outlasts the recording of a success.

### ModuleScheduling

`module`, `node`, `nmc`, `mic` and `label` are the API objects; `cached` holds the
client's copies of Modules, NMCs and Namespaces, and `moduleEvents` and `nmcEvents`
what their watches have not delivered yet; `queue` and `task` are the controller's
work queue and the Reconcile in progress. A write reaches the cache in the same
step or later, and the late ones count as disturbances.

| Action | Code |
|---|---|
| `StartReconcile`, `tryRemovingLabel`, `setLabel` | Get the Module, the namespace label |
| `FinalizeNode`, `finalizeModule` | `finalizeModule`: drop the entry on each node, then the finalizer once no NMC is in use |
| `setFinalizerAndStatus`, `handleMIC` | finalizer, mappings for every targeted node, the MIC |
| `ScheduleNode` | `enableModuleOnNode` or `disableModuleOnNode` on one node, as `prepareNodeSchedulingData` decided |
| `updateModuleStatus`, `CallFails` | status; the failure of any call |
| `DeliverModule`, `DeliverNMC`, `DeliverNamespace` | the watches; `ListModulesForNMC` names the Modules to queue, a Namespace queues none |
| `ImageAppears`, `NodeFollows`, `CollectInUse`, `WorkerLabel` | image pipeline, NMC controller, version label controller |
| `CreateModule` ... `UntaintNode` | users |

Abstractions. A spec is its revision, an image the pair of revision and kernel;
`Mapping` says for which the mapper finds an image, none, or an error. Nodes and the
states of MICs are read as they are: the controller writes neither, and a copy of
them that lags is the same as a change that comes later, as its delivery is the
event. `CreateOrPatch` computes its merge patch on the cached NMC and sends
`spec.modules` as a whole; `setLabel` and `tryRemovingLabel` decide on the cached
Namespace and the cached list of Modules. What an old copy makes go wrong is
recorded at the step at which it happens, in history variables no action looks at:
`misjudged` (the patch of one Module changed another's entry, or did not have its
own effect, or a finalizer went on a copy without the in-use label), `unset` (the
label was taken to be there), `leaked` (the label was not seen when it was to go,
or its Module went before it had the finalizer). The copy of the rebuild trigger
generation into the status is left out.

### ScheduledPods

`task[r]` is the Reconcile of the controller of role `r`; both have the same life
cycle and share the actions, with their differences where the code has them: the
DRA controller returns early without its finalizer (`NothingToFinalize`) and keeps
DeviceClasses; the device plugin's node predicate sees only taints, the DRA
controller's labels too (`NodeEvents`). An API patch with a resource version
fails if the Module is not the one that was read. A loop of calls over nodes,
DaemonSets or DeviceClasses is one step with an arbitrary subset that succeeds.
A node's `schedule` is the version-schedule label together with the kernel module
ready label, which the DaemonSets' node selector asks for. A DaemonSet is known
by its version, `metadata.generateName` included: a second one of the same
version, which a lagging list could create, is not modelled. The lists of
DaemonSets, DeviceClasses and Nodes are current when they are made, where the code
lists from its cache (`dra_reconciler.go:281,305,505`,
`device_plugin_reconciler.go:227`); what is stale is the list during the rest of the
Reconcile. An object that a lagging list lacks, such as a DaemonSet created by
the Reconcile just before, is therefore outside the model.

### PodNodeLabels

`pod` and `label` are the Pods and the roles a node is labelled with. Reconcile
is `StartReconcile` (Get the Pod, list those of the role on its node), then
`addLabel`, or `deleteLabel` and, for a Pod being deleted, `deleteFinalizer`, which
carries the resource version of the Pod. The predicates are in `UpdatePod`. Reads
are current; what is stale is the list during the Reconcile. In the code
`deleteLabel` and `addLabel` patch from a cached Node, and the patch is empty where
that copy is behind.

### KernelMapping and Preflight

`KernelMapping` has no state. `validateModule` and `ValidateUpdate` are the webhook,
check by check; `GetModuleLoaderDataForKernel` is the mapper: first matching
mapping, merge of build and sign sections, templates and their failure, which is
for kernels with fewer than three components and for templates that do not parse
(`x:${KERNEL_VERSION`, `kernelmapper_test.go:303`). Names, paths and images keep what the
code tells apart: whether an image has a tag, whether a file lies under
`dirName`, how long a name is; label lengths are the lengths in
`utils/kmmlabels.go`.

`Preflight` has Modules that pass this webhook, PreflightValidations and the MIC
`<module>-preflight` they share. Reconcile is `getModulesData`, `updateStatus`,
`processPreflightValidation`. A Module without a loader is dereferenced by
`getModulesData` and ends every Reconcile, as in the code, and so does one with a
malformed template. Each state in a MIC remembers, for the properties only, the
settings it was `asked` for. Reads are current: Modules, PreflightValidations and
MICs each queue the PreflightValidation when they change, so that a copy that
lags is a change that comes later.

### Hub

`kernelOf`, `claim` and `claimQueue` are the spokes, `cluster`, `mcm`, `mic` and `mw`
the hub's objects. Reconcile handles one cluster after the other:
`setMicAsDesired`, `areImagesReady`, `setManifestWork`; then `GarbageCollect` and
`ManagedClusterModuleUpdateStatus`. `cachedMIC` is the hub's copy of each MIC, of any
age: `setMicAsDesired` makes its merge patch from it, and `areImagesReady` looks at
it right after, so that it finds no MIC when it has just been created and may find
the images of before. The history variable `early` has the clusters whose
ManifestWork was last written after a look at a copy that did not list its images,
`reported` the images that were ever reported to exist. `TriggerRebuild` and `ResetMIC`
are the rebuild, which forgets the states of a MIC while the ManifestWork keeps its
mappings. A MIC or ManifestWork of an earlier ManagedClusterModule of the same
name is taken over, as `SetControllerReference` compares names. ManagedClusters
and ManifestWorks are listed as they are; any change of them is an event. `ClusterCallFails` is an error that is only
logged: the Reconcile goes on and nothing queues the key, which `lost` remembers.
`task.spec` is the spec as the Reconcile sees it: `Rewritten` is what
`SetManifestWorkAsDesired` does to the shared `ModuleLoader`. A spec maps each
kernel to an image and whether it is built or signed; a claim is a set of
kernels, and an empty claim yields one empty kernel name, as splitting an empty
string does.

## Runs

| Run | Shows |
|---|---|
| `version_labels` | with caches of any age, the ordered upgrade is safe, implements `OrderedUpgrade` and converges, with failing patches, Pods that take any time to go and labels that change in between, but for overtaken Modules and missed Pods |
| `node_modules` | one Module with two images and a reboot into another kernel: the status is true, and the controller never rests with work left, wrong labels or orphan Pods |
| `node_modules_live` | with worker effects nobody sees: a Module that stays configured is eventually recorded and labelled as loaded, and a deleted one is eventually released |
| `image_pipeline` | whatever fails, what the MIC reports as existing was pushed, build and sign of the only image do not overlap, and neither controller rests while an image waits for it |
| `image_pipeline_converges` | when Pods and registry work, images that can exist are eventually reported as existing, for good, and a user's image is never overwritten |
| `module_scheduling` | with lagging copies of Modules, NMCs and Namespaces: NMC entries, their labels, the namespace label, the status and the finalizers rest right and no entry outlives its Module, but for what an old copy spoilt |
| `scheduled_pods` | DaemonSets, target labels, DeviceClasses and counts rest right while sections, versions and nodes change; nothing is left behind; the teardown ends |
| `pod_node_labels` | the ready labels rest right, none outlives its last Pod, and the finalizer is always released |
| `preflight` | every Module the webhook admits, malformed templates apart, is usable for every kernel; a verdict at rest is the answer for the image of now; a lone PreflightValidation completes |
| `hub` | a missing image is shipped only after a look at a copy that did not list it yet; ManifestWorks and status rest right; a new kernel reaches the spoke's Module |
| `node_modules_reboot` | finding: `status.BootId` is the boot ID at recording time |
| `hub_mappings` | finding: the second cluster of a Reconcile loses the mappings the first one has no kernel for |

`TypeOK` is an invariant of the runs of `VersionLabels`, `NodeModules` and
`PodNodeLabels`. It is proved for these and for `ImagePipeline`,
`ModuleScheduling` and `Preflight`; `ScheduledPods` and `Hub` state one that holds
with the constants of their runs (checked outside them, to leave the runs to the
properties about hazards).
`ScheduleWithinWorker` is proved, and follows from `ImplementsUpgrade`.

What the properties leave out, because the code does not give it:
`RestsOnlyWhenDone` and `LabelsRestRight` of `NodeModules` speak of nodes whose taints
every configured Module tolerates, and `OrphanPodsCollected` lets a Pod that has
not started stay beside a Module the node does not tolerate, or beside a Module
of the same name in another namespace, whose entry hides it from the collection;
`EventuallyLoaded` is about the status entry and the ready label, not the kernel;
`WorksRestRight` and `KernelsDistributed` leave out clusters whose last error was
swallowed, and speak of the only selected cluster (`hub_mappings` shows why);
`ShippedExist` leaves out clusters in `early`;
`PreflightCompletes` leaves out missing images with neither a build nor a sign
section, for which the pull Pod waits for ever, and clusters with a Module
without a loader or with a malformed template; `CountsRestRight` leaves out the device plugin's node count, as
no event of its own brings that controller back when a node stops being selected;
`EntriesRestRight` lets a node with an older worker version keep what it had, and
it, `NoOrphanEntries` and `FinalizerReleased` of `ModuleScheduling` leave out what is
`misjudged`, `NamespaceProtected` what is `unset`, `NamespaceReleased` what is `leaked`;
`FinalizerReleased` says there that no Module is left waiting when both controllers
have nothing to do, as an invariant, and not that they get there;
the properties of `VersionLabels` leave out overtaken Modules and missed Pods;
`AdmittedUsable` leaves out a `rawArgs` that is set but empty, and settings whose own
templates are malformed, which the webhook admits and the mapper fails on;
`VerdictsRestRight` lets an answer stand that was given for other settings with the
same image (`Reused`): after a Failure a build or sign section edited under the same
image is not validated again (`preflightvalidation_reconciler.go:221`), although
`docs/mkdocs/documentation/preflight_validation.md:27` says that the administrator "can
change the module definitions, and Preflight will try to validate the module again"; `BuildThenSign` speaks
of a MIC that lists one image: with three, MBSC lists written whole from a very old
copy can put an image back to be signed while it is built again. A few hazards of
`PROJECT.json` have no property but a note, since the model reaches them and no
line of the code prevents them: the orphan loader that succeeds after it was
listed, the build that is asked of an image without a build section, the panic on
a Module without a loader. Every exception is reached: without it the run of the
property fails.

### Bounds

* `NodeModules`: one Module suffices for what is about a Module's own state. Two
  Modules meet in the early return of the unschedulable case, which drops the
  errors of the others (`nmc_reconciler.go:145`), and in the names that
  `GarbageCollectWorkerPods` compares; the properties say so (above), and the
  proofs cover any number of Modules. Two images make config changes within a kernel, two kernels and
  `MaxBoot = 1` an upgrade, before and after every step. The liveness run has no
  reboot and one image, to keep the graph small enough for temporal checking.
* `VersionLabels`: one Module and two versions, so that an upgrade, a downgrade and
  the removal of the label all occur; labels change, caches lag and patches fail
  without a bound. Modules share nothing but the patch of the Node, which the
  proofs cover for any number.
* `ImagePipeline`: one image; images meet only in the lists of the MBSC's spec and
  status, and the proofs cover any number; its six specs are the ways an image can be configured, two pull Pod names
  give the second Pod a lagging cache creates, and `MaxEvents = 1` allows one edit,
  trigger, lost image or failing call at any point.
* `ModuleScheduling`: two Modules of one namespace, one versioned, on a node with
  a kernel that has no mapping in the first revision and a failing one in the
  second, there already or not when the manager starts. Changes, failing calls and
  writes that are delivered late share `MaxDisturbances = 3`: deletion and creation
  in parallel over an old copy, a kernel mapping that fails after it worked, a node
  that is relabelled during a Reconcile. Several Modules deleted together over old
  copies need more; the proofs of the namespace label and of the entries have no
  bound.
* `ScheduledPods`: one node, two versions, one DeviceClass, three changes, one
  failure; a section replaces another in two edits (`InTwoEdits`). The direct
  replacement in one edit (`InOneEdit`), without failures, was checked outside the
  runs (1.0 million states).
* `PodNodeLabels`: three Pods, two of one role, on one node that may be removed.
* `Preflight`: one Module, two PreflightValidations, two kernels and one that is
  too short; the candidates are four Modules that differ in mapping, image and
  sections, two with a template that is not closed, and one for each check of schema
  and webhook that refuses it.
* `Hub`: one cluster of two nodes; changes, triggers and failures share
  `MaxDisturbances = 3`, while the cached MIC lags without a bound. `hub_mappings` takes
  two clusters of one node and one disturbance, the creation of the
  ManagedClusterModule. The proofs are for any clusters.

`CHECK_DEADLOCK FALSE` is set wherever users owe nothing: a cluster without
Modules, or with nothing left to change, rests.

### Fairness

The work queue hands out a queued key and serves keys in turn (`WF` of the
controllers, `SF` of the start of each key's Reconcile where several keys share a
worker, so that one that keeps failing does not starve another); an API call that
is tried again and again succeeds eventually (`SF` of the successful outcome where
failures are unbounded; elsewhere failures are counted); the kubelet starts Pods,
a worker that keeps being restarted succeeds eventually, deleted Pods go away;
informers deliver; a DaemonSet removes Pods from nodes it does not select, and
its controller keeps its status; Kubernetes' garbage collectors collect; pulls,
builds and signs end; the agents of the hub report claims. Nothing is assumed of
users, taints, evictions, reboots or failures.

## Proofs

`VersionLabelsProofs`. Nothing is assumed of the caches. The two safety properties
are not inductive: between its decision and its patch the controller holds a
decision in `todo`, taken on a copy that may lack its own last patch. `IInv` says how
far a copy can be behind for a Module that is not hurried (`CopyClose`): it has the
labels as they are or as they were one patch before, in which case the decision
on it is the one already carried out. So a pending decision is either void
(`Moot`) or still promises what it was taken for (`StillValid`: nothing is scheduled
when the worker label is about to go, the worker label is absent when one is about
to be added, and equal when the schedule label is about to be added). `Refinement`
proves `Spec => ImplementsUpgrade`: the worker label is the version granted, the
schedule label the one that is open, the Pods that were not missed are its users,
and overtaken Modules are waived. From `IInv`, a patch moves each Module by one of
Grant, Open, Close, Withdraw or not at all (`PatchStep`), a Pod's coming or going by
UserStarts or UserStops (`PodStep`), and every other step leaves the abstract state
alone.

`NodeModulesProofs`. `TypeCorrect` needs nothing but the assumptions on the
constants. `StatusTellsTruth` is about `HistorySpec`, which is `Spec` with a history
variable `surprised`: the Modules over whose completed loader Pod the node rebooted,
and those whose kernel module a worker changed without its Pod showing it, in the
current boot. For every other Module `StatusLoaded` holds (`StatusTrue`), with any
number of Modules, configs and reboots, and with reboots and unseen workers
allowed at any time; `node_modules` checks `StatusLoaded` where neither happens, and
`node_modules_reboot` shows that it fails for a surprised Module. (`StatusTrue` was
checked with TLC outside the runs, both constants `TRUE` and two reboots, 3.6 million
states.) The invariant `IInv` follows a module's way into and out of
the status: a successful loader means a loaded module (`PodsOK`), an unloader is
only created for the config of a status entry (`UnloaderConfig`), the status a
Reconcile is about to write is true of the kernel or of a Pod that is still there
(`PatchPending`, `PatchTrue`), the Pods it is about to delete are the ones it has
recorded (`DoomedOK`, `DeletedOK`), and its copy differs from the NMC only as its
own steps explain (`CopyTracks`). `UnloadBeforeLoad`, `RestsWhenDone`,
`LabelsRightAtRest` and `NoOrphanPods` are about `Spec`. The first rests on
`MatchInv`: the entries there are and the entries about to be written fit the
loader Pods. The others rest on one invariant, `RestInv`: unless the key is
queued, the copies of the Reconcile are exact (`CopiesFresh`) and the part of its
work that lies behind its program counter is done (`PassSoFar`). Every action of
the environment either queues the key or disturbs nothing of that.

`PodNodeLabelsProofs`. `LabelsHavePods` proves `LabelHasPod` for any Pods, roles and
nodes, from the assumption that `RoleOf` gives each Pod a role. Its invariant adds
that the Pod a Reconcile works on is still there and on the node it was read with
(`TaskPodThere`: only that Reconcile removes it), that when the finalizer is about
to go the label has gone or another Pod of the role is on the node
(`FinalizerLast`), and that a removed Node has no labels (`GoneUnlabelled`).
`LabelsRightAtRest` adds who still owes a change: a missing label is owed by a
ready Pod that is queued or whose Reconcile is about to add it (`LabelOwed`), a
surplus one by a Pod of the role on the node (`RemovalOwed`), and a Reconcile that
is not queued again has read the Pod as it is (`ReadOrQueued`) and leaves the rest
to a Pod that is (`OtherCares`).

`ImagePipelineProofs`. Nothing is assumed of the cache: it may be any older state
of the four kinds of objects. `ExistsOnlyIfPresent` and `UserImagesKept` (an action
property, of `Dependable` environments as in its run) follow from `ImageInv`, which
says the same of every copy of an outcome on its way from the registry to the
MIC: Pods, MBSC status and MIC states, live and cached, report success only of
an image that is there, and nothing but success of an image of the user
(`Sound`). `RestsWhenWaiting` adds what each controller leaves behind for an image
when it has no work and its cache is current (`MICRests`, `MBSCRests`), that the
cache does not run ahead of the edits (`CacheBehind`), and that a running Pod is
not cached as one that ended (`PhaseBehind`). `SignFollowsBuild` rests on `OrderInv`,
which follows the result of a build through the copies of the MBSC and the MIC,
as long as the MIC is as it was created: there is one MBSC, whose entries and Pods
are those of the spec (`OneMBSC`, `JobMade`); a Pod is deleted only when it has
succeeded, so what is cached as ended has ended like that and a failed Pod stays
(`JobSeen`); a sign is asked for only after a result that is in the cache, and
none is ever taken back to nothing (`SignAfterBuild`); and a Pod runs only while
the recorded result is not its own nor one that has the other's turn follow
(`InTurn`). The last two need that the MIC lists no other image (`Only`): a patch
of the status from an old copy then changes nothing but what an ended Pod says.

`ModuleSchedulingProofs`. Nothing is assumed of the caches: the copies of Modules,
Namespaces and NMCs may be of any age. `CopyInv` says what an old copy of a Module
can still tell: a copy that is behind has its delivery on the way, a Module with its
finalizer is never cached as deleted while it is live, and a Reconcile whose copy was
current when it started and that is not marked stale works on the Module of now
(`CopyOf`, `Knows`). `ProtectedWhileLive` adds that the label comes before the finalizer
(`LabelFirst`); that the list of Modules never lacks a live one with its finalizer is
what keeps `tryRemovingLabel` from taking its label. `ReleasedWhenUnused` rests on
`Accounted`: every label that has not leaked has a Module that looks after it, live, or
being deleted with its turn at `tryRemovingLabel` still to come (`Witness`), and never
only the Module that is past that turn. `NoEntryOutlivesItsModule` rests on `Held`:
an entry or a status has the in-use label on its NMC and its Module the finalizer,
unless a patch from an old copy spoilt it (`misjudged`); `PatchHeld` shows it of a merge
patch computed from a copy of any age. `unset`, `leaked` and `misjudged`, the exceptions
of the three, grow only in steps that make the mistake, so the theorems also say
that there is no other way to lose the label, the release or the entry.

`ScheduledPodsProofs`. No assumption but those on the constants. `Shape` gives the
objects their fields. `NothingLeftBehind` rests on `LeftInv`: a finalizer is only
removed by the controller it belongs to, so it is there while that controller
deploys and while anything of the role is in the cluster. `SectionsRightAtRest`
adds that, unless the Module is queued, a Reconcile works with the Module and the
DaemonSets of now, and what lies behind its step is made or swept (`SectionInv`).
Each step of one role's controller is shown to keep that role's part and to frame
the other's (`Kept`, `Frame`), so that the two Reconciles are never looked at
together; `CountsRightAtRest` reuses this for the counts (`CountInv`).

`PreflightProofs`. `VerdictsRightAtRest` rests on `RestInv`: the Reconcile of a
PreflightValidation that is not queued has read the Modules as they are (`ReadCurrent`),
has left the right verdicts once past its status patch (`Judged`) and the right
questions once it is over (`Asked`); `Bound`, a part of the type invariant, ties an
answer's image to the settings it was asked for. The theorem says no more than the
property: an answer for other settings with the same image stands. `AdmittedAreUsable`
follows a Module through the webhook (`Admitted`) and the mapper's operators, one lemma
for each, for any candidate specs of the right type (`ModuleSpecTyped`): a merged sign
section lists files, all under `dirName` (`SignReady`, `SignMerged`), and only
a malformed template makes the mapper fail, the exception the property names (`SignFails`).

`HubProofs`. `Shape` gives the objects their fields, and one lemma per action says what
it changes. `StatusCountsAtRest` needs nothing else. `NothingShippedEarly` follows
an image from the pipeline's answer: what a MIC or its cached copy says exists was
reported (`StatesReported`), so what a Reconcile is about to ship was, unless it looked
at a copy without the image (`WorkReady`; `hasty` records that). `WorksRightAtRest` has to
say how far the cached MIC may be behind: its owners and emptiness (`OwnersPast`,
`GoneEmpty`) and that at the check a live MIC with other images than the wanted ones is
ahead of a copy whose delivery will queue the ManagedClusterModule (`CopyTold`). On top
of that `RestInv` keeps the selection, claims and spec a Reconcile works with current
unless it is queued, and says of the only selected cluster, once its turn is over,
that its ManifestWork is right, on its way out, or was denied by the copy (`OnlyRight`).

What the proofs changed in the models. The number of edits had to become part of
the MIC in `ImagePipeline`: with a counter beside it, an edit undone by another
before the informer delivered either was no event, and a wake-up was lost that
the API server does not lose. `RestsOnlyWhenDone`, `LabelsRestRight`,
`LoaderMatchesStatus` and `OrphanPodsCollected` of `NodeModules`, true with one
Module and without options, were false in general and now name the exceptions.
`BuildThenSign` of `ImagePipeline` was stated for any images, and is false of three:
an image has been built and signed, a second pull Pod of it fails and it is built
again, while the cache still shows the MBSC with the first build's result. Patches
of the whole status list for a second image and of the whole spec list for a third,
both made from that copy, ask for the sign while the build runs (48 steps, replayed
with TLC outside the runs). It is now about the image of a MIC that lists no other.
The start of a Reconcile in `ScheduledPods` had a `CASE` with two guards that
overlap, whose value is not determined.

Only model-checked: every liveness property (`UpgradeConverges`,
`EventuallyLoaded`, `DeletionCompletes`, `ImagesConverge`, `FinalizerReleased` of
`PodNodeLabels`, `TeardownCompletes`, `PreflightCompletes`, `KernelsDistributed`), out of
the prover's reach; `EntriesRestRight`, `StatusRestsRight` and `FinalizerReleased` of
`ModuleScheduling`; and `StatusLoaded` itself. The properties of the two runs that end in
a violation are false of the code.

## Plan

What is left: proofs that entries and status of `ModuleScheduling` rest right with
caches of any age; lagging lists in `ScheduledPods` and `PodNodeLabels`; the types of
`ScheduledPods` and `Hub`, of which the shapes are the part the proofs needed.

## Not modelled

Pod templates beyond what decides whether a Pod is replaced and which nodes a
DaemonSet selects; volumes, firmware and soft-dependency files of the worker;
events; metrics; configuration and process start-up: no state the controllers'
correctness depends on. `RemovePodFinalizers`, which runs after the NMC object
itself is gone; the `kernel-module-version-ready` label, which follows the ready
label; the namespace webhook, one refusal to delete a labelled namespace; the
generation of the rebuild trigger copied into the Module's status;
`modulePodSuccess`, a predicate on Pods the Module controller does not own;
generated deep copies. Two Modules with the same name in different namespaces
share the label key of `getLabelsPerModules` only by an unlucky dash; names are
model values here.
