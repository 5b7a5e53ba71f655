-------------------------------- MODULE Hub --------------------------------
(***************************************************************************)
(* KMM-Hub: one ManagedClusterModule and the clusters it selects           *)
(* (internal/controllers/hub, internal/manifestwork, internal/cluster,     *)
(* internal/statusupdater), and the controller of the spokes that reports  *)
(* their kernels (internal/controllers/node_kernel_clusterclaim.go).  The  *)
(* images of a cluster go through the pipeline of ImagePipeline, which     *)
(* here answers in one step; the spec of a ManagedClusterModule is what    *)
(* the kernel mapper of KernelMapping makes of it.                         *)
(***************************************************************************)
EXTENDS Naturals, FiniteSets, Functions

CONSTANTS
    Clusters,       \* ManagedClusters
    Nodes,          \* nodes of a cluster
    RawKernels,     \* kernel versions the nodes report
    TrimSuffix,     \* RawKernels and EmptyKernel without a trailing "+"
    EmptyKernel,    \* what splitting an empty claim yields
    Specs,          \* per kernel: an image and whether it is built or signed,
                    \* NoMatch, or Failed
    NoMatch, Failed, None,
    MaxDisturbances \* bound: changes of users, nodes and agents, and failing calls

ASSUME HubAssumption == MaxDisturbances \in Nat

VARIABLES
    kernelOf,   \* per cluster and node, its kernel
    claim,      \* per cluster, the ClusterClaim of its kernels
    claimQueue, \* clusters whose claim controller has work
    cluster,    \* the ManagedClusters: label and reported claim
    mcm,        \* the ManagedClusterModule
    mic,        \* per cluster, the ModuleImagesConfig "<mcm>-<cluster>"
    cachedMIC,  \* the copies of them in the hub's cache
    mw,         \* per cluster, its ManifestWork
    queue,      \* the ManagedClusterModule is queued
    task,       \* the Reconcile in progress
    lost,       \* clusters whose last error was logged and not returned
    reported,   \* history: per cluster, the images ever reported to exist
    early,      \* history: clusters whose ManifestWork was last written
                \* after a look at a copy that did not list its images yet
    disturbances

spoke == <<kernelOf, claim, claimQueue>>
images == <<mic, cachedMIC, reported>>
vars == <<spoke, cluster, mcm, images, mw, queue, task, lost, early, disturbances>>

-----------------------------------------------------------------------------
(* Objects                                                                 *)

Kernels == Range(TrimSuffix)

NoCounts == [desired |-> 0, applied |-> 0, degraded |-> 0]

(* uid tells a ManagedClusterModule from a later one of the same name.     *)
NoMCM == [exists |-> FALSE, uid |-> 0, everything |-> FALSE, spec |-> None, trigger |-> 0,
          status |-> NoCounts]

(* trigger and applied are the ImageRebuildTriggerGeneration of spec and   *)
(* status.                                                                 *)
NoMIC == [exists |-> FALSE, owner |-> 0, images |-> {}, trigger |-> 0, states |-> {}, applied |-> 0]

NoWork == [phase |-> "none", owner |-> 0, mappings |-> {}, conditions |-> {}]

(* hasty, for the history only: the copy of the ModuleImagesConfig lacks   *)
(* an image the Reconcile is about to ship.                                *)
Idle == [step |-> "idle", uid |-> 0, spec |-> None, trigger |-> 0, claims |-> << >>, todo |-> {},
         current |-> None, hasty |-> FALSE]

(* An empty selector selects every cluster.                                *)
Selected(c) == mcm.exists /\ (mcm.everything \/ cluster[c].labelled)

SelectedManagedClusters == {c \in Clusters : Selected(c)}

KernelsOf(c) == Range(kernelOf[c]) \ {None}

(* KernelVersions, with the suffix taken off as both its users do.         *)
KernelVersions(claimed) ==
    {TrimSuffix[k] : k \in (IF claimed = {} THEN {EmptyKernel} ELSE claimed)}

Mapped(spec, versions) == {k \in versions : spec[k] \notin {NoMatch, Failed}}

TypeOK ==
    /\ kernelOf \in [Clusters -> [Nodes -> RawKernels \cup {None}]]
    /\ claimQueue \subseteq Clusters
    /\ \A c \in Clusters :
          /\ claim[c] = None \/ claim[c] \subseteq RawKernels
          /\ cluster[c].claim = None \/ cluster[c].claim \subseteq RawKernels
          /\ \A i, j \in mic[c].images : i.image = j.image => i = j
          /\ \A s, t \in mic[c].states : s.image = t.image => s = t
          /\ mw[c].phase \in {"none", "live", "deleting"}
          /\ \A x, y \in mw[c].mappings : x.literal = y.literal => x = y
          /\ mw[c].conditions \subseteq {"Applied", "Degraded"}
    /\ mcm.spec \in Specs \cup {None}
    /\ \A n \in Range(mcm.status) : n \in 0..Cardinality(Clusters)
    /\ queue \in BOOLEAN
    /\ task.step \in {"idle", "clusters", "ready", "work", "updateStatus"}
    /\ task.todo \subseteq Clusters /\ lost \subseteq Clusters /\ early \subseteq Clusters
    /\ disturbances \in 0..MaxDisturbances

(* The spokes run and have reported their kernels.                         *)
Init ==
    /\ kernelOf \in [Clusters -> [Nodes -> RawKernels]]
    /\ claim = [c \in Clusters |-> Range(kernelOf[c])]
    /\ claimQueue = {}
    /\ \E l \in SUBSET Clusters :
          cluster = [c \in Clusters |-> [labelled |-> c \in l, claim |-> claim[c]]]
    /\ mcm = NoMCM
    /\ mic = [c \in Clusters |-> NoMIC] /\ cachedMIC = mic
    /\ reported = [c \in Clusters |-> {}]
    /\ mw = [c \in Clusters |-> NoWork]
    /\ queue = FALSE /\ task = Idle /\ lost = {} /\ early = {}
    /\ disturbances = 0

Disturbance == disturbances < MaxDisturbances /\ disturbances' = disturbances + 1

-----------------------------------------------------------------------------
(* The claim controller of a spoke                                         *)

ReconcileClaim(c) ==
    /\ c \in claimQueue
    /\ claim' = [claim EXCEPT ![c] = KernelsOf(c)]
    /\ claimQueue' = claimQueue \ {c}
    /\ UNCHANGED <<kernelOf, cluster, mcm, images, mw, queue, task, lost, early, disturbances>>

-----------------------------------------------------------------------------
(* Reconcile of the ManagedClusterModule                                   *)

(* The clusters and their claims are those of one List call.               *)
StartReconcile ==
    /\ queue /\ task.step = "idle"
    /\ queue' = FALSE
    /\ task' = IF ~mcm.exists THEN Idle
               ELSE [step |-> "clusters", uid |-> mcm.uid, spec |-> mcm.spec, trigger |-> mcm.trigger,
                     claims |-> [c \in SelectedManagedClusters |-> cluster[c].claim],
                     todo |-> SelectedManagedClusters, current |-> None, hasty |-> FALSE]
    /\ UNCHANGED <<spoke, cluster, mcm, images, mw, lost, early, disturbances>>

NextCluster(c) == task' = [task EXCEPT !.step = "clusters", !.todo = @ \ {c}, !.current = None]

(* filterDuplicateImages keeps the first of several kernels with one image. *)
First(spec, versions, image) == CHOOSE k \in Mapped(spec, versions) : spec[k].image = image

ImagesOf(spec, versions) ==
    {LET k == First(spec, versions, spec[v].image)
     IN [image |-> spec[v].image, kernel |-> k, sections |-> spec[k].sections] :
        v \in Mapped(spec, versions)}

(* CreateOrPatch: a merge patch with the fields in which the copy differs  *)
(* from what is wanted.  The ModuleImagesConfig of an earlier              *)
(* ManagedClusterModule of the same name is taken over.                    *)
Merged(now, copy, wanted) == IF wanted = copy THEN now ELSE wanted

Patched(c, wanted) ==
    [exists |-> TRUE,
     owner |-> Merged(mic[c].owner, cachedMIC[c].owner, task.uid),
     images |-> Merged(mic[c].images, cachedMIC[c].images, wanted),
     trigger |-> Merged(mic[c].trigger, cachedMIC[c].trigger, task.trigger),
     states |-> mic[c].states, applied |-> mic[c].applied]

(* setMicAsDesired.  A cluster without a claim is passed over, and so is   *)
(* one with a kernel the mapper fails on, or whose ModuleImagesConfig was  *)
(* created or collected without the cache knowing of it; the last three    *)
(* are errors that are only logged.                                        *)
setMicAsDesired(c) ==
    /\ task.step = "clusters" /\ c \in task.todo
    /\ LET claimed == task.claims[c]
           versions == KernelVersions(claimed)
           error == \/ \E k \in versions : task.spec[k] = Failed
                    \/ cachedMIC[c].exists # mic[c].exists
       IN IF claimed = None \/ error
          THEN /\ NextCluster(c)
               /\ lost' = IF claimed = None THEN lost \ {c} ELSE lost \cup {c}
               /\ UNCHANGED mic
          ELSE /\ mic' = [mic EXCEPT ![c] = Patched(c, ImagesOf(task.spec, versions))]
               /\ task' = [task EXCEPT !.step = "ready", !.current = c]
               /\ UNCHANGED lost
    /\ UNCHANGED <<spoke, cluster, mcm, cachedMIC, reported, mw, queue, early, disturbances>>

StateOf(object, image) ==
    IF \E s \in object.states : s.image = image
    THEN (CHOOSE s \in object.states : s.image = image).state ELSE ""

(* Mutant: an image without a state counts as existing. *)
DoAllImagesExistUnset(object) ==
    \A i \in object.images : StateOf(object, i.image) # "ImageDoesNotExist"

DoAllImagesExist(object) == \A i \in object.images : StateOf(object, i.image) = "ImageExists"

Listed(specs) == {i.image : i \in specs}

(* The copy may be one from before the patch, and there is none right      *)
(* after the ModuleImagesConfig was created: another logged error.         *)
areImagesReady ==
    /\ task.step = "ready"
    /\ LET c == task.current
           copy == cachedMIC[c]
           shipped == Listed(ImagesOf(task.spec, KernelVersions(task.claims[c])))
       IN /\ IF copy.exists /\ DoAllImagesExist(copy)
             THEN task' = [task EXCEPT !.step = "work", !.hasty = ~(shipped \subseteq Listed(copy.images))]
             ELSE NextCluster(c)
          /\ lost' = IF copy.exists THEN lost \ {c} ELSE lost \cup {c}
    /\ UNCHANGED <<spoke, cluster, mcm, images, mw, queue, early, disturbances>>

(* managedClusterKernelMappings.                                           *)
MappingsOf(spec, versions) ==
    {[literal |-> k, image |-> spec[k].image] : k \in Mapped(spec, versions)}

(* SetManifestWorkAsDesired takes the ManagedClusterModule by value, but   *)
(* its ModuleLoader is a pointer: the build and sign sections and the      *)
(* mappings it replaces are replaced for the rest of this Reconcile.       *)
Rewritten(spec, versions) ==
    [k \in Kernels |-> IF k \in Mapped(spec, versions)
                       THEN [spec[k] EXCEPT !.sections = FALSE] ELSE NoMatch]

(* CreateOrPatch of the ManifestWork; one of an earlier                    *)
(* ManagedClusterModule of the same name is taken over.                    *)
setManifestWork ==
    /\ task.step = "work"
    /\ LET c == task.current
           versions == KernelVersions(task.claims[c])
           new == [mw[c] EXCEPT !.phase = IF @ = "none" THEN "live" ELSE @, !.owner = task.uid,
                                !.mappings = MappingsOf(task.spec, versions)]
       IN /\ mw' = [mw EXCEPT ![c] = new]
          /\ queue' = (queue \/ mw' # mw)
          /\ lost' = lost \ {c}
          /\ early' = IF task.hasty THEN early \cup {c} ELSE early \ {c}
          /\ task' = [task EXCEPT !.step = "clusters", !.todo = @ \ {c}, !.current = None,
                                  !.hasty = FALSE, !.spec = Rewritten(@, versions)]
    /\ UNCHANGED <<spoke, cluster, mcm, images, disturbances>>

(* GarbageCollect: every ManifestWork labelled with the name; a deletion   *)
(* that fails ends the Reconcile with an error.                            *)
GarbageCollect ==
    /\ task.step = "clusters" /\ task.todo = {}
    /\ LET unmatched == {c \in Clusters \ DOMAIN task.claims : mw[c].phase # "none"}
       IN \E deleted \in SUBSET unmatched :
             /\ IF deleted = unmatched THEN UNCHANGED disturbances ELSE Disturbance
             /\ mw' = [c \in Clusters |-> IF c \in deleted THEN [mw[c] EXCEPT !.phase = "deleting"]
                                          ELSE mw[c]]
             /\ queue' = (queue \/ mw' # mw \/ deleted # unmatched)
             /\ task' = IF deleted = unmatched THEN [task EXCEPT !.step = "updateStatus"] ELSE Idle
    /\ UNCHANGED <<spoke, cluster, mcm, images, lost, early>>

Works == {c \in Clusters : mw[c].phase # "none"}

Counts ==
    [desired |-> Cardinality(Works),
     applied |-> Cardinality({c \in Works : "Applied" \in mw[c].conditions}),
     degraded |-> Cardinality({c \in Works : "Degraded" \in mw[c].conditions})]

(* Mutant: the selected clusters are counted, not the ManifestWorks. *)
ManagedClusterModuleUpdateStatusSelected ==
    /\ task.step = "updateStatus"
    /\ mcm' = IF mcm.exists THEN [mcm EXCEPT !.status = [Counts EXCEPT !.desired = Cardinality(DOMAIN task.claims)]] ELSE mcm
    /\ queue' = (queue \/ mcm' # mcm \/ ~mcm.exists)
    /\ task' = Idle
    /\ UNCHANGED <<spoke, cluster, images, mw, lost, early, disturbances>>

(* ManagedClusterModuleUpdateStatus: an object of that name is patched.    *)
ManagedClusterModuleUpdateStatus ==
    /\ task.step = "updateStatus"
    /\ mcm' = IF mcm.exists THEN [mcm EXCEPT !.status = Counts] ELSE mcm
    /\ queue' = (queue \/ mcm' # mcm \/ ~mcm.exists)
    /\ task' = Idle
    /\ UNCHANGED <<spoke, cluster, images, mw, lost, early, disturbances>>

(* A call that fails for one cluster is logged and the loop goes on; the   *)
(* patch of a ManifestWork fails before or after the mapping was rewritten. *)
ClusterCallFails ==
    /\ Disturbance
    /\ \E c \in (IF task.step \in {"ready", "work"} THEN {task.current}
                 ELSE IF task.step = "clusters" THEN task.todo ELSE {}) :
          /\ lost' = lost \cup {c}
          /\ \E spec \in {task.spec} \cup
                         (IF task.step = "work"
                          THEN {Rewritten(task.spec, KernelVersions(task.claims[c]))} ELSE {}) :
                task' = [task EXCEPT !.step = "clusters", !.todo = @ \ {c}, !.current = None,
                                     !.hasty = FALSE, !.spec = spec]
    /\ UNCHANGED <<spoke, cluster, mcm, images, mw, queue, early>>

CallFails ==
    /\ task.step = "updateStatus" \/ (task.step = "clusters" /\ task.todo = {})
    /\ Disturbance
    /\ task' = Idle /\ queue' = TRUE
    /\ UNCHANGED <<spoke, cluster, mcm, images, mw, lost, early>>

Work ==
    \/ StartReconcile
    \/ \E c \in Clusters : setMicAsDesired(c)
    \/ areImagesReady \/ setManifestWork \/ GarbageCollect \/ ManagedClusterModuleUpdateStatus

-----------------------------------------------------------------------------
(* The image pipeline, Kubernetes' garbage collector and the agents of     *)
(* Open Cluster Management.  An image that is neither built nor signed may *)
(* never come.                                                             *)

(* The controllers of the pipeline read the same cache.                    *)
MICAnswers(c) ==
    /\ cachedMIC[c].exists /\ mic[c].applied = mic[c].trigger
    /\ \E i \in mic[c].images, state \in {"ImageExists", "ImageDoesNotExist"} :
          /\ StateOf(mic[c], i.image) = ""
          /\ i.sections \/ state = "ImageExists"
          /\ mic' = [mic EXCEPT ![c].states = @ \cup {[image |-> i.image, state |-> state]}]
          /\ reported' = [reported EXCEPT ![c] = IF state = "ImageExists" THEN @ \cup {i.image} ELSE @]
    /\ UNCHANGED <<spoke, cluster, mcm, cachedMIC, mw, queue, task, lost, early, disturbances>>

(* handleImageRebuildTriggerGeneration: what was known of the images is    *)
(* forgotten.                                                              *)
ResetMIC(c) ==
    /\ cachedMIC[c].exists /\ mic[c].applied # mic[c].trigger
    /\ mic' = [mic EXCEPT ![c].states = {}, ![c].applied = mic[c].trigger]
    /\ UNCHANGED <<spoke, cluster, mcm, cachedMIC, reported, mw, queue, task, lost, early, disturbances>>

(* ModuleReconcileMICPredicate drops creations and deletions.              *)
DeliverMIC(c) ==
    /\ cachedMIC[c] # mic[c]
    /\ cachedMIC' = [cachedMIC EXCEPT ![c] = mic[c]]
    /\ queue' = (queue \/ (cachedMIC[c].exists /\ mic[c].exists))
    /\ UNCHANGED <<spoke, cluster, mcm, mic, reported, mw, task, lost, early, disturbances>>

Orphan(owner) == ~mcm.exists \/ owner # mcm.uid

CollectMIC(c) ==
    /\ mic[c].exists /\ Orphan(mic[c].owner)
    /\ mic' = [mic EXCEPT ![c] = NoMIC]
    /\ UNCHANGED <<spoke, cluster, mcm, cachedMIC, reported, mw, queue, task, lost, early, disturbances>>

CollectWork(c) ==
    /\ mw[c].phase = "live" /\ Orphan(mw[c].owner)
    /\ mw' = [mw EXCEPT ![c].phase = "deleting"]
    /\ queue' = TRUE
    /\ UNCHANGED <<spoke, cluster, mcm, images, task, lost, early, disturbances>>

WorkGone(c) ==
    /\ mw[c].phase = "deleting"
    /\ mw' = [mw EXCEPT ![c] = NoWork]
    /\ queue' = TRUE
    /\ UNCHANGED <<spoke, cluster, mcm, images, task, lost, early, disturbances>>

(* Mutant: the first report of a claim is no change. *)
ReportClaimFirst(c) ==
    /\ cluster[c].claim # claim[c]
    /\ cluster' = [cluster EXCEPT ![c].claim = claim[c]]
    /\ queue' = (queue \/ (claim[c] # None /\ cluster[c].claim # None /\ Selected(c)))
    /\ UNCHANGED <<spoke, mcm, images, mw, task, lost, early, disturbances>>

(* kmmClusterClaimChanged, FindManagedClusterModulesForCluster.            *)
ReportClaim(c) ==
    /\ cluster[c].claim # claim[c]
    /\ cluster' = [cluster EXCEPT ![c].claim = claim[c]]
    /\ queue' = (queue \/ (claim[c] # None /\ Selected(c)))
    /\ UNCHANGED <<spoke, mcm, images, mw, task, lost, early, disturbances>>

Pipeline(c) == ResetMIC(c) \/ MICAnswers(c)

Agents(c) == CollectMIC(c) \/ CollectWork(c) \/ WorkGone(c) \/ ReportClaim(c)

-----------------------------------------------------------------------------
(* Users, nodes and the work agent's reports                               *)

CreateMCM ==
    /\ ~mcm.exists /\ Disturbance
    /\ \E s \in Specs, e \in BOOLEAN :
          mcm' = [exists |-> TRUE, uid |-> mcm.uid + 1, everything |-> e, spec |-> s, trigger |-> 0,
                  status |-> NoCounts]
    /\ queue' = TRUE
    /\ UNCHANGED <<spoke, cluster, images, mw, task, lost, early>>

EditMCM ==
    /\ mcm.exists /\ Disturbance
    /\ \E s \in Specs, e \in BOOLEAN : mcm' = [mcm EXCEPT !.everything = e, !.spec = s] /\ mcm' # mcm
    /\ queue' = TRUE
    /\ UNCHANGED <<spoke, cluster, images, mw, task, lost, early>>

(* A new image under the same name is asked for.                           *)
TriggerRebuild ==
    /\ mcm.exists /\ Disturbance
    /\ mcm' = [mcm EXCEPT !.trigger = @ + 1]
    /\ queue' = TRUE
    /\ UNCHANGED <<spoke, cluster, images, mw, task, lost, early>>

DeleteMCM ==
    /\ mcm.exists /\ Disturbance
    /\ mcm' = [NoMCM EXCEPT !.uid = mcm.uid]
    /\ queue' = TRUE
    /\ UNCHANGED <<spoke, cluster, images, mw, task, lost, early>>

(* Mutant: only the new labels are asked about. *)
RelabelClusterNew(c) ==
    /\ Disturbance
    /\ cluster' = [cluster EXCEPT ![c].labelled = ~@]
    /\ queue' = (queue \/ (mcm.exists /\ (mcm.everything \/ cluster'[c].labelled)))
    /\ UNCHANGED <<spoke, mcm, images, mw, task, lost, early>>

(* The map function is asked about the old and the new labels.             *)
RelabelCluster(c) ==
    /\ Disturbance
    /\ cluster' = [cluster EXCEPT ![c].labelled = ~@]
    /\ queue' = (queue \/ mcm.exists)
    /\ UNCHANGED <<spoke, mcm, images, mw, task, lost, early>>

(* A node joins, leaves or boots another kernel.                           *)
NodeChanges(c) ==
    /\ Disturbance
    /\ \E n \in Nodes, k \in RawKernels \cup {None} :
          kernelOf[c][n] # k /\ kernelOf' = [kernelOf EXCEPT ![c][n] = k]
    /\ claimQueue' = claimQueue \cup {c}
    /\ UNCHANGED <<claim, cluster, mcm, images, mw, queue, task, lost, early>>

DeleteClaim(c) ==
    /\ claim[c] # None /\ Disturbance
    /\ claim' = [claim EXCEPT ![c] = None]
    /\ claimQueue' = claimQueue \cup {c}
    /\ UNCHANGED <<kernelOf, cluster, mcm, images, mw, queue, task, lost, early>>

WorkReports(c) ==
    /\ mw[c].phase = "live" /\ Disturbance
    /\ \E cond \in {{"Applied"}, {"Applied", "Degraded"}} \ {mw[c].conditions} :
          mw' = [mw EXCEPT ![c].conditions = cond]
    /\ queue' = TRUE
    /\ UNCHANGED <<spoke, cluster, mcm, images, task, lost, early>>

Environment ==
    \/ CreateMCM \/ EditMCM \/ TriggerRebuild \/ DeleteMCM
    \/ \E c \in Clusters : RelabelCluster(c) \/ NodeChanges(c) \/ DeleteClaim(c) \/ WorkReports(c)

-----------------------------------------------------------------------------

Next ==
    \/ Work \/ ClusterCallFails \/ CallFails
    \/ \E c \in Clusters : ReconcileClaim(c) \/ Pipeline(c) \/ DeliverMIC(c) \/ Agents(c)
    \/ Environment

Fairness ==
    /\ WF_vars(Work)
    /\ \A c \in Clusters : /\ WF_vars(ReconcileClaim(c)) /\ WF_vars(DeliverMIC(c))
                           /\ WF_vars(Pipeline(c)) /\ WF_vars(Agents(c))

Spec == Init /\ [][Next]_vars /\ Fairness

-----------------------------------------------------------------------------
(* Properties                                                              *)

AtRest == ~queue /\ task.step = "idle"

(* No spoke is told of an image before it is there: every image in a       *)
(* ManifestWork was reported by the image pipeline for the same cluster,   *)
(* also while the ManagedClusterModule, the kernels of the cluster and its *)
(* selection change between check and patch and while images are reset by  *)
(* a rebuild.  The exception is the one of the cached read: a Reconcile    *)
(* that has just listed a new image may find the copy from before ready.   *)
ShippedExist ==
    \A c \in Clusters \ early :
        mw[c].phase # "none" => Listed(mw[c].mappings) \subseteq reported[c]

(* What the ManifestWork of a cluster has to say.                          *)
Ready(c) ==
    /\ cluster[c].claim \notin {None, {}} /\ c \notin lost
    /\ \A k \in KernelVersions(cluster[c].claim) :
          /\ mcm.spec[k] # Failed
          /\ mcm.spec[k] # NoMatch => StateOf(mic[c], mcm.spec[k].image) = "ImageExists"

Right(c) ==
    /\ mcm.exists /\ mw[c].phase = "live" /\ mw[c].owner = mcm.uid /\ cluster[c].claim # None
    /\ mw[c].mappings = MappingsOf(mcm.spec, KernelVersions(cluster[c].claim))

(* At rest no cluster that is not selected has a ManifestWork, and the     *)
(* only selected one, once its images are there, the cache knows, and the  *)
(* deletion of an earlier ManifestWork is over, has the one of the spec    *)
(* and the kernels of now, unless its last error was swallowed.            *)
WorksRestRight ==
    AtRest /\ mcm.exists =>
        /\ \A c \in Clusters : mw[c].phase = "live" => Selected(c)
        /\ \A c \in Clusters : SelectedManagedClusters = {c} /\ Ready(c) /\ cachedMIC[c] = mic[c]
                               => Right(c) \/ mw[c].phase = "deleting"

(* At rest the status counts the ManifestWorks there are and what their    *)
(* agents report.                                                          *)
StatusRestsRight == AtRest /\ mcm.exists => mcm.status = Counts

(* A kernel that boots on a node of the only selected cluster reaches its  *)
(* Module: node, claim, ManagedCluster, ModuleImagesConfig and             *)
(* ManifestWork follow each other, as long as errors are not swallowed and *)
(* the images come to exist.                                               *)
KernelsDistributed ==
    \A c \in Clusters :
        <>[](SelectedManagedClusters = {c} /\ Ready(c) /\ KernelsOf(c) # {})
            => <>[](Right(c) /\ cluster[c].claim = KernelsOf(c))

(* What the documentation says of the ManifestWork: "a trimmed-down Module *)
(* resource, with kernel mappings preserved".  At rest every kernel of a   *)
(* selected cluster for which the ManagedClusterModule has a mapping, and  *)
(* whose image is there, is in the Module sent to that cluster.            *)
MappingsPreserved ==
    AtRest /\ cachedMIC = mic => \A c \in SelectedManagedClusters : Ready(c) => Right(c)

=============================================================================
