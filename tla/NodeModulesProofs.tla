-------------------------- MODULE NodeModulesProofs --------------------------
(***************************************************************************)
(* Proofs about NodeModules, for every set of Modules, kernels, images and *)
(* options and every number of reboots: type correctness, that the NMC     *)
(* status tells the truth about the kernel, that loaders fit the status,   *)
(* and that the controller rests only with everything done.                *)
(*                                                                         *)
(* StatusTrue is not inductive.  Its strengthening IInv follows the        *)
(* outcome of a worker Pod from the kernel through the local copy of the   *)
(* status into the status, and says which Pods may be deleted.  MatchInv   *)
(* follows the entries next to loader Pods in the same way, and RestInv    *)
(* says what a pass that nothing has disturbed has already achieved.       *)
(***************************************************************************)
EXTENDS NodeModules, TLAPS

\* History: the Modules whose kernel module changed, in this boot, without their
\* Pod saying so
VARIABLE surprised

(***************************************************************************)
(* A Module is taken by surprise when the node reboots over its completed  *)
(* loader Pod, which the NMC controller then records for the new boot, and *)
(* when a worker changes the kernel and its Pod does not show it.  Any     *)
(* other reboot ends the surprise: no entry is for the new boot.           *)
(***************************************************************************)
Surprise ==
    surprised' = IF boot' # boot
                 THEN {m \in Modules : pod[m].kind = "load" /\ pod[m].phase = "Succeeded"}
                 ELSE surprised \cup
                        {m \in Modules : kernelMod'[m] # kernelMod[m] /\ pod'[m] = pod[m]}

\* Spec with the history: Surprise bars no step of Next.
HistorySpec ==
    Init /\ surprised = {} /\ [][Next /\ Surprise]_<<vars, surprised>>

\* StatusLoaded for the Modules that nothing took by surprise
StatusTrue ==
    \A m \in Modules \ surprised :
        status[m] # NoStatus /\ status[m].boot = boot /\ ~UnloadPending(m)
            => kernelMod[m] # NoConfig

\* Boot IDs travel from the host to the Node object, to the copy of it, and into
\* the status; none runs ahead of its source.
BootsOK ==
    /\ node.boot <= boot
    /\ nodeCopy.boot <= node.boot
    /\ \A m \in Modules :
        /\ status[m].boot <= node.boot
        /\ copy.status[m].boot <= nodeCopy.boot
        /\ pc # "idle" => status[m].boot <= nodeCopy.boot

\* A loader that succeeded has loaded its module.
PodsOK ==
    \A m \in Modules \ surprised :
        pod[m].kind = "load" /\ pod[m].phase = "Succeeded" => kernelMod[m] # NoConfig

\* Only this controller writes the status: its copy is exact until an entry is
\* dropped because of a reboot.
CopyTracks ==
    /\ pc \in {"deletePods", "process"} => copy.status = status
    /\ pc \in {"gcInUse", "gcPods"} =>
        \A m \in Modules : copy.status[m] = status[m] \/ status[m].boot < boot

\* An unloader Pod is for the config of the status entry it will remove.
UnloaderConfig ==
    \A m \in Modules :
        pod[m].kind = "unload" /\ status[m] # NoStatus => pod[m].config = status[m].config

\* Before the patch the copy differs from the status only by an outcome.
PatchPending ==
    pc = "patchStatus" =>
        \A m \in Modules :
            \/ copy.status[m] = status[m]
            \/ copy.status[m] = NoStatus
            \/ pod[m].kind # "unload"

\* An entry that does not claim the module is loaded in this boot
NoClaim(t) == t = NoStatus \/ t.boot # boot

\* What is about to be written is true as well.
PatchTrue ==
    pc = "patchStatus" =>
        \A m \in Modules \ surprised :
            /\ NoClaim(copy.status[m]) \/ UnloadPending(m) \/ kernelMod[m] # NoConfig
            /\ UnloadPending(m) /\ pod[m].life = "deleted" => NoClaim(copy.status[m])

\* An unloader Pod is deleted after it failed or after its entry is gone.
DoomedOK ==
    pc \in {"patchStatus", "deletePods"} =>
        \A m \in doomed :
            pod[m].kind = "unload" => pod[m].phase = "Failed" \/ copy.status[m] = NoStatus

DeletedOK ==
    \A m \in Modules \ surprised :
        UnloadPending(m) /\ pod[m].life = "deleted" => NoClaim(status[m])

------------------------------------------------------------------------------
\* Type correctness

\* The constants of the record types
LEMMA Basics ==
    /\ NoStatus \in StatusEntry
    /\ NoPod \in PodRecord
    /\ EmptyCopy \in NMCCopy
    /\ EmptyNode \in NodeObject
    /\ 0 \in Boots
    /\ NoConfig \in ConfigOrNone
  <1>1. 0 \in Boots
    BY ConstantsAssumption DEF Boots
  <1>2. NoStatus \in StatusEntry /\ NoPod \in PodRecord /\ NoConfig \in ConfigOrNone
    BY DEF StatusEntry, PodRecord, ConfigOrNone
  <1> QED  BY <1>1, <1>2 DEF EmptyCopy, NMCCopy, EmptyNode, NodeObject

\* A status entry that is not NoStatus has a config.
LEMMA StatusFacts ==
    ASSUME NEW t \in StatusEntry
    PROVE  /\ t.boot \in Boots
           /\ t # NoStatus => t.config \in Config /\ t.config # NoConfig
           /\ t = NoStatus => t.config = NoConfig /\ t.boot = 0
  BY ConstantsAssumption, Basics DEF StatusEntry, NoStatus

\* A Pod that exists has a config; changing its phase or life keeps its type.
LEMMA PodFacts ==
    ASSUME NEW p \in PodRecord, p.kind # "none"
    PROVE  /\ p.config \in Config
           /\ p.kind \in {"load", "unload"}
           /\ \A ph \in {"Pending", "Running", "Succeeded", "Failed"} :
                 [p EXCEPT !.phase = ph] \in PodRecord
           /\ \A l \in {"live", "evicted", "deleted"} : [p EXCEPT !.life = l] \in PodRecord
           /\ [p EXCEPT !.restarted = TRUE] \in PodRecord
  <1>1. p # NoPod
    BY DEF NoPod
  <1> QED  BY <1>1 DEF PodRecord

LEMMA NewPodType ==
    ASSUME NEW kind \in {"load", "unload"}, NEW c \in Config
    PROVE  NewPod(kind, c) \in PodRecord
  BY DEF NewPod, PodRecord

\* Unmarshalling a Pod's config gives a config.
LEMMA UnmarshalType ==
    ASSUME NEW old \in ConfigOrNone, NEW new \in Config
    PROVE  Unmarshal(old, new) \in Config
  BY DEF Unmarshal, ConfigOrNone, Config

LEMMA DeletePodsType ==
    ASSUME TypeOK, NEW ms
    PROVE  DeletePods(ms) \in [Modules -> PodRecord]
  <1>1. \A m \in Modules : pod[m] \in PodRecord
    BY DEF TypeOK
  <1>2. ASSUME NEW m \in Modules, Exists(m)
        PROVE  [pod[m] EXCEPT !.life = "deleted"] \in PodRecord
    BY <1>1, <1>2, PodFacts DEF Exists
  <1> QED  BY <1>1, <1>2 DEF DeletePods

LEMMA SyncedStatusType ==
    ASSUME TypeOK, NEW m \in Modules
    PROVE  SyncedStatus(m) \in StatusEntry
  <1>1. pod[m] \in PodRecord /\ status[m] \in StatusEntry /\ node.boot \in Boots
    BY DEF TypeOK, NodeObject
  <1>2. status[m].config \in ConfigOrNone
    BY <1>1, StatusFacts DEF ConfigOrNone
  <1>3. ASSUME Exists(m)
        PROVE  Unmarshal(status[m].config, pod[m].config) \in Config
    BY <1>1, <1>2, <1>3, PodFacts, UnmarshalType DEF Exists
  <1>4. ASSUME NEW c \in Config
        PROVE  [config |-> c, boot |-> node.boot] \in StatusEntry
    BY <1>1 DEF StatusEntry
  <1> QED  BY <1>1, <1>3, <1>4, Basics DEF SyncedStatus

LEMMA ProcessedPodType ==
    ASSUME TypeOK, NEW m \in Modules
    PROVE  ProcessedPod(m) \in PodRecord
  <1>1. pod[m] \in PodRecord /\ copy.status[m] \in StatusEntry /\ copy.spec[m] \in ConfigOrNone
    BY DEF TypeOK, NMCCopy
  <1>2. Exists(m) => [pod[m] EXCEPT !.life = "deleted"] \in PodRecord
    BY <1>1, PodFacts DEF Exists
  <1>3. copy.spec[m] # NoConfig => NewPod("load", copy.spec[m]) \in PodRecord
    BY <1>1, NewPodType DEF ConfigOrNone
  <1>4. copy.status[m] # NoStatus => NewPod("unload", copy.status[m].config) \in PodRecord
    BY <1>1, StatusFacts, NewPodType
  <1>5. InSpec(copy, m) => ProcessModuleSpec(m) \in PodRecord
    BY <1>1, <1>2, <1>3, <1>4, Basics DEF ProcessModuleSpec, InSpec
  <1>6. HasStatus(copy, m) => ProcessUnconfiguredModuleStatus(m) \in PodRecord
    BY <1>1, <1>2, <1>4 DEF ProcessUnconfiguredModuleStatus, HasStatus
  <1> QED  BY <1>1, <1>5, <1>6 DEF ProcessedPod

\* Each step keeps the types.
LEMMA TypeNext == TypeOK /\ [Next]_vars => TypeOK'
  <1> SUFFICES ASSUME TypeOK, [Next]_vars
               PROVE  TypeOK'
    OBVIOUS
  <1> USE Basics
  <1>1. CASE Reconcile
    <2>1. [m \in Modules |-> SyncedStatus(m)] \in [Modules -> StatusEntry]
      BY SyncedStatusType
    <2>2. copy' \in NMCCopy
      BY <1>1, <2>1 DEF Reconcile, TypeOK, NMCCopy, currentNMC
    <2>3. doomed' \in SUBSET Modules
      BY <1>1 DEF Reconcile, PodsToDelete
    <2> QED  BY <1>1, <2>2, <2>3 DEF Reconcile, TypeOK, Steps, nmcVars, hostVars
  <1>2. CASE SyncStatusPatch
    BY <1>2 DEF SyncStatusPatch, TypeOK, NMCCopy, Steps, hostVars
  <1>3. CASE ReconcileFails
    BY <1>3 DEF ReconcileFails, Finish, TypeOK, Steps, nmcVars, hostVars
  <1>4. ASSUME NEW failed \in SUBSET Modules, SyncStatusDelete(failed)
        PROVE  TypeOK'
    <2>1. pod' \in [Modules -> PodRecord]
      BY <1>4, DeletePodsType DEF SyncStatusDelete
    <2> QED  BY <1>4, <2>1 DEF SyncStatusDelete, Finish, TypeOK, Steps, nmcVars, hostVars, localVars
  <1>5. ASSUME NEW failed \in SUBSET Modules, ProcessModules(failed)
        PROVE  TypeOK'
    <2>1. pod' \in [Modules -> PodRecord]
      BY <1>5, ProcessedPodType DEF ProcessModules, TypeOK
    <2>2. status' \in [Modules -> StatusEntry]
      BY <1>5 DEF ProcessModules, TypeOK
    <2>3. copy' \in NMCCopy
      BY <1>5 DEF ProcessModules, TypeOK, NMCCopy
    <2>4. doomed' \in SUBSET Modules
      BY <1>5 DEF ProcessModules, Unschedulable
    <2> QED  BY <1>5, <2>1, <2>2, <2>3, <2>4 DEF ProcessModules, TypeOK, Steps, hostVars
  <1>6. ASSUME NEW failed \in SUBSET Modules, GarbageCollectWorkerPods(failed)
        PROVE  TypeOK'
    <2>1. pod' \in [Modules -> PodRecord]
      BY <1>6, DeletePodsType DEF GarbageCollectWorkerPods
    <2> QED  BY <1>6, <2>1 DEF GarbageCollectWorkerPods, TypeOK, Steps, nmcVars, hostVars, localVars
  <1>7. ASSUME NEW ok \in BOOLEAN, UpdateLabels(ok)
        PROVE  TypeOK'
    <2>1. node' \in NodeObject
      BY <1>7 DEF UpdateLabels, TypeOK, NodeObject
    <2> QED  BY <1>7, <2>1 DEF UpdateLabels, Finish, TypeOK, Steps, nmcVars, hostVars
  <1>8. ASSUME NEW ok \in BOOLEAN, GarbageCollectInUseLabels(ok)
        PROVE  TypeOK'
    <2>1. inUse' \in SUBSET Modules
      BY <1>8 DEF GarbageCollectInUseLabels, TypeOK
    <2>2. copy' \in NMCCopy
      BY <1>8, <2>1 DEF GarbageCollectInUseLabels, TypeOK, NMCCopy
    <2> QED  BY <1>8, <2>1, <2>2 DEF GarbageCollectInUseLabels, TypeOK, Steps, hostVars
  <1>9. ASSUME NEW ok \in BOOLEAN, UpdateNodeLabels(ok)
        PROVE  TypeOK'
    <2>1. node' \in NodeObject
      BY <1>9 DEF UpdateNodeLabels, TypeOK, NodeObject, LabelsToAdd
    <2> QED  BY <1>9, <2>1 DEF UpdateNodeLabels, Finish, TypeOK, Steps, nmcVars, hostVars
  <1>10. ASSUME NEW m \in Modules, NEW c \in Config, EnableModule(m, c)
         PROVE  TypeOK'
    BY <1>10 DEF EnableModule, TypeOK, ConfigOrNone, hostVars, localVars
  <1>11. ASSUME NEW m \in Modules, DisableModule(m) \/ FinalizeRemove(m)
         PROVE  TypeOK'
    BY <1>11 DEF DisableModule, FinalizeRemove, RemoveModuleFromNMC, TypeOK, hostVars, localVars
  <1>12. ASSUME NEW m \in Modules, FinalizeRelease(m) \/ CreateModule(m) \/ DeleteModule(m)
         PROVE  TypeOK'
    BY <1>12 DEF FinalizeRelease, CreateModule, DeleteModule, TypeOK, nmcVars, hostVars, localVars
  <1>13. ASSUME NEW m \in Modules, NEW p \in PodRecord, PodMoves(m, p),
                kernelMod' \in [Modules -> ConfigOrNone]
         PROVE  TypeOK'
    BY <1>13 DEF PodMoves, TypeOK, nmcVars, localVars
  <1>14. ASSUME NEW m \in Modules, Exists(m), kernelMod' = WorkerEffect(m)
         PROVE  kernelMod' \in [Modules -> ConfigOrNone]
    <2>1. pod[m].config \in ConfigOrNone
      BY <1>14, PodFacts DEF Exists, TypeOK, ConfigOrNone
    <2> QED  BY <1>14, <2>1 DEF WorkerEffect, LoadKmod, UnloadKmod, TypeOK
  <1>15. ASSUME NEW m \in Modules, Exists(m)
         PROVE  /\ \A ph \in {"Running", "Succeeded", "Failed"} :
                      [pod[m] EXCEPT !.phase = ph] \in PodRecord
                /\ [pod[m] EXCEPT !.restarted = TRUE] \in PodRecord
                /\ [pod[m] EXCEPT !.life = "evicted",
                                  !.phase = IF @ = "Succeeded" THEN @ ELSE "Failed"] \in PodRecord
    <2>1. pod[m] \in PodRecord /\ pod[m] # NoPod
      BY <1>15 DEF TypeOK, Exists, NoPod
    <2> QED  BY <2>1 DEF PodRecord
  <1>16. ASSUME NEW m \in Modules,
                PodStarts(m) \/ PodRestarts(m) \/ PodFails(m) \/ PodEvicted(m) \/ PodGone(m)
         PROVE  TypeOK'
    <2>1. kernelMod' \in [Modules -> ConfigOrNone]
      BY <1>16 DEF PodStarts, PodRestarts, PodFails, PodEvicted, PodGone, TypeOK
    <2>2. PICK p \in PodRecord : PodMoves(m, p)
      BY <1>15, <1>16 DEF PodStarts, PodRestarts, PodFails, PodEvicted, PodGone
    <2> QED  BY <1>13, <2>1, <2>2
  <1>17. ASSUME NEW m \in Modules, PodSucceeds(m)
         PROVE  TypeOK'
    BY <1>13, <1>14, <1>15, <1>17 DEF PodSucceeds
  <1>18. ASSUME NEW m \in Modules, WorkerActsUnseen(m)
         PROVE  TypeOK'
    <2>1. kernelMod' \in [Modules -> ConfigOrNone]
      BY <1>14, <1>18 DEF WorkerActsUnseen
    <2> QED  BY <1>18, <2>1 DEF WorkerActsUnseen, TypeOK, nmcVars, localVars
  <1>19. CASE Reboot
    <2>1. boot' \in Boots
      BY <1>19, ConstantsAssumption DEF Reboot, TypeOK, Boots
    <2>2. ASSUME NEW m \in Modules, pod[m].phase = "Running"
          PROVE  [pod[m] EXCEPT !.restarted = TRUE] \in PodRecord
      <3>1. pod[m] \in PodRecord /\ pod[m] # NoPod
        BY <2>2 DEF TypeOK, NoPod
      <3> QED  BY <3>1 DEF PodRecord
    <2>3. pod' \in [Modules -> PodRecord]
      BY <1>19, <2>2 DEF Reboot, TypeOK
    <2> QED  BY <1>19, <2>1, <2>3 DEF Reboot, TypeOK, nmcVars, localVars
  <1>20. CASE NodeReports \/ NodeReady \/ \E ms \in SUBSET Modules : TaintsChange(ms)
    <2>1. node' \in NodeObject
      BY <1>20 DEF NodeReports, NodeReady, TaintsChange, TypeOK, NodeObject
    <2> QED  BY <1>20, <2>1 DEF NodeReports, NodeReady, TaintsChange, TypeOK, nmcVars, hostVars, localVars
  <1>21. CASE UNCHANGED vars
    BY <1>21 DEF vars, TypeOK
  <1> QED
    BY <1>1, <1>2, <1>3, <1>4, <1>5, <1>6, <1>7, <1>8, <1>9, <1>10, <1>11, <1>12,
       <1>16, <1>17, <1>18, <1>19, <1>20, <1>21
    DEF Next, NMCController, ModuleController, Kubelet, Host

LEMMA TypeInit == Init => TypeOK
  <1> SUFFICES ASSUME Init PROVE TypeOK
    OBVIOUS
  <1>1. node \in NodeObject
    BY Basics DEF Init, NodeObject
  <1>2. module \in [Modules -> {"live", "deleting", "gone"}] /\ pc \in Steps /\ dirty \in BOOLEAN
    BY DEF Init, Steps
  <1> QED  BY Basics, <1>1, <1>2 DEF Init, TypeOK

(***************************************************************************)
(* Whatever the API server, the kubelet, the Module controller and reboots *)
(* do, the NMC, its worker Pods and the Reconcile's copies stay well typed: *)
(* no Pod without a config, no status entry without config and boot ID.    *)
(***************************************************************************)
THEOREM TypeCorrect == Spec => []TypeOK
  BY TypeInit, TypeNext, PTL DEF Spec

------------------------------------------------------------------------------
\* The status tells the truth

IInv ==
    /\ TypeOK
    /\ BootsOK
    /\ PodsOK
    /\ CopyTracks
    /\ UnloaderConfig
    /\ PatchPending
    /\ PatchTrue
    /\ DoomedOK
    /\ DeletedOK
    /\ StatusTrue

\* What IInv looks at; a step that leaves it alone keeps IInv.
LEMMA Frame ==
    ASSUME IInv, surprised \subseteq surprised', TypeOK',
           UNCHANGED <<status, pod, kernelMod, boot, pc, copy, nodeCopy, doomed>>,
           node'.boot = node.boot
    PROVE  IInv'
  BY DEF IInv, BootsOK, PodsOK, CopyTracks, UnloaderConfig, PatchPending, NoClaim,
         UnloadPending, PatchTrue, DoomedOK, DeletedOK, StatusTrue

\* The parts of IInv that are about a running Reconcile are void once it ends.
LEMMA FinishFrame ==
    ASSUME IInv, surprised \subseteq surprised', TypeOK', UNCHANGED <<status, kernelMod, boot>>, node'.boot = node.boot,
           pc' = "idle", copy' = EmptyCopy, nodeCopy' = EmptyNode,
           PodsOK', UnloaderConfig', DeletedOK', StatusTrue'
    PROVE  IInv'
  <1>1. node.boot \in Boots /\ \A m \in Modules : status[m].boot <= node.boot
    BY DEF IInv, TypeOK, NodeObject, BootsOK
  <1>2. BootsOK'
    BY <1>1, ConstantsAssumption DEF IInv, BootsOK, EmptyCopy, EmptyNode, NoStatus, Boots
  <1> QED  BY <1>2 DEF IInv, CopyTracks, PatchPending, PatchTrue, DoomedOK

\* DeletePods changes the life of Pods and nothing else.
LEMMA DeletePodsFacts ==
    ASSUME TypeOK, NEW ms, pod' = DeletePods(ms), NEW m \in Modules
    PROVE  /\ pod'[m].kind = pod[m].kind
           /\ pod'[m].config = pod[m].config
           /\ pod'[m].phase = pod[m].phase
           /\ m \notin ms => pod'[m] = pod[m]
  <1>1. pod[m] \in PodRecord
    BY DEF TypeOK
  <1>2. CASE m \in ms /\ Exists(m)
    <2>1. pod'[m] = [pod[m] EXCEPT !.life = "deleted"]
      BY <1>2 DEF DeletePods
    <2> QED  BY <1>1, <1>2, <2>1 DEF PodRecord, NoPod
  <1>3. CASE ~(m \in ms /\ Exists(m))
    BY <1>3 DEF DeletePods
  <1> QED  BY <1>2, <1>3

\* Deleting Pods keeps the truth of the status if every unloader that is deleted
\* has failed or its entry makes no claim.
LEMMA DeleteKeepsTruth ==
    ASSUME IInv, surprised \subseteq surprised', NEW ms, pod' = DeletePods(ms), UNCHANGED <<status, kernelMod, boot>>,
           \A m \in ms \cap Modules :
               pod[m].kind = "unload" => pod[m].phase = "Failed" \/ NoClaim(status[m])
    PROVE  PodsOK' /\ UnloaderConfig' /\ DeletedOK' /\ StatusTrue'
  <1>1. \A m \in Modules :
           /\ pod'[m].kind = pod[m].kind
           /\ pod'[m].config = pod[m].config
           /\ pod'[m].phase = pod[m].phase
           /\ m \notin ms => pod'[m] = pod[m]
    BY DeletePodsFacts DEF IInv
  <1>2. PodsOK' /\ UnloaderConfig' /\ StatusTrue'
    BY <1>1 DEF IInv, PodsOK, UnloaderConfig, StatusTrue, UnloadPending
  <1>3. DeletedOK'
    BY <1>1 DEF IInv, DeletedOK, UnloadPending, NoClaim
  <1> QED  BY <1>2, <1>3

LEMMA InvInit == Init => IInv
  <1> SUFFICES ASSUME Init PROVE IInv
    OBVIOUS
  <1>1. TypeOK
    BY TypeInit
  <1>2. \A m \in Modules : status[m] = NoStatus /\ pod[m] = NoPod
    BY DEF Init
  <1>3. BootsOK
    BY <1>2 DEF Init, BootsOK, EmptyCopy, EmptyNode, NoStatus
  <1>4. PodsOK /\ UnloaderConfig /\ DeletedOK /\ StatusTrue
    BY <1>2 DEF PodsOK, UnloaderConfig, DeletedOK, StatusTrue, UnloadPending, NoPod
  <1> QED  BY <1>1, <1>3, <1>4 DEF IInv, Init, CopyTracks, PatchPending, PatchTrue, DoomedOK

------------------------------------------------------------------------------
\* The steps of the NMC controller keep IInv

LEMMA ReconcileKeeps ==
    ASSUME IInv, surprised \subseteq surprised', Reconcile, TypeOK'
    PROVE  IInv'
  <1>1. /\ UNCHANGED <<status, pod, kernelMod, boot, node>>
        /\ nodeCopy' = node
        /\ copy'.status = [m \in Modules |-> SyncedStatus(m)]
        /\ doomed' = PodsToDelete
        /\ pc' = IF \E m \in Modules : Exists(m) THEN "patchStatus" ELSE "process"
    BY DEF Reconcile, nmcVars, hostVars, currentNMC
  <1>2. ASSUME NEW m \in Modules
        PROVE  /\ status[m] \in StatusEntry
               /\ copy'.status[m] = SyncedStatus(m)
               /\ node.boot \in Nat /\ status[m].boot \in Nat
    BY <1>1, StatusFacts, ConstantsAssumption DEF IInv, TypeOK, NodeObject, Boots
  <1>3. BootsOK'
    <2>1. ASSUME NEW m \in Modules PROVE SyncedStatus(m).boot <= node.boot
      <3>1. status[m].boot <= node.boot /\ node.boot \in Nat
        BY <1>2 DEF IInv, BootsOK
      <3>2. SyncedStatus(m).boot \in {0, node.boot, status[m].boot}
        BY DEF SyncedStatus, NoStatus
      <3> QED  BY <3>1, <3>2
    <2>2. node.boot \in Nat
      BY ConstantsAssumption DEF IInv, TypeOK, NodeObject, Boots
    <2> QED  BY <1>1, <1>2, <2>1, <2>2 DEF IInv, BootsOK
  <1>4. CopyTracks'
    <2>1. CASE \E m \in Modules : Exists(m)
      BY <1>1, <2>1 DEF CopyTracks
    <2>2. CASE ~\E m \in Modules : Exists(m)
      <3>1. [m \in Modules |-> SyncedStatus(m)] = [m \in Modules |-> status[m]]
        BY <2>2 DEF SyncedStatus
      <3>2. status = [m \in Modules |-> status[m]]
        BY DEF IInv, TypeOK
      <3> QED  BY <1>1, <2>2, <3>1, <3>2 DEF CopyTracks
    <2> QED  BY <2>1, <2>2
  <1>5. PodsOK' /\ UnloaderConfig' /\ DeletedOK' /\ StatusTrue'
    BY <1>1 DEF IInv, PodsOK, UnloaderConfig, DeletedOK, StatusTrue, UnloadPending, NoClaim
  <1>6. PatchPending'
    BY <1>1, <1>2 DEF PatchPending, SyncedStatus
  <1>7. PatchTrue'
    <2> SUFFICES ASSUME NEW m \in Modules \ surprised
                 PROVE  /\ \/ SyncedStatus(m) = NoStatus \/ SyncedStatus(m).boot # boot
                           \/ UnloadPending(m) \/ kernelMod[m] # NoConfig
                        /\ UnloadPending(m) => SyncedStatus(m) = NoStatus
      BY <1>1, <1>2 DEF PatchTrue, NoClaim, UnloadPending
    <2>1. UnloadPending(m) => SyncedStatus(m) = NoStatus
      BY DEF UnloadPending, SyncedStatus, Exists
    <2>2. ASSUME ~UnloadPending(m), Exists(m), pod[m].phase = "Succeeded"
          PROVE  kernelMod[m] # NoConfig
      <3>1. pod[m].kind = "load"
        BY <2>2, PodFacts DEF IInv, TypeOK, Exists, UnloadPending
      <3> QED  BY <2>2, <3>1 DEF IInv, PodsOK
    <2>3. ASSUME ~(Exists(m) /\ pod[m].phase = "Succeeded")
          PROVE  SyncedStatus(m) = status[m]
      BY <2>3 DEF SyncedStatus
    <2> QED  BY <2>1, <2>2, <2>3 DEF IInv, StatusTrue
  <1>8. DoomedOK'
    <2> SUFFICES ASSUME NEW m \in PodsToDelete, pod[m].kind = "unload", pod[m].phase # "Failed"
                 PROVE  SyncedStatus(m) = NoStatus
      BY <1>1, <1>2 DEF DoomedOK, PodsToDelete
    <2> QED  BY DEF PodsToDelete, SyncedStatus, Orphan, HasStatus, currentNMC
  <1> QED  BY <1>3, <1>4, <1>5, <1>6, <1>7, <1>8 DEF IInv

LEMMA SyncStatusPatchKeeps ==
    ASSUME IInv, surprised \subseteq surprised', SyncStatusPatch, TypeOK'
    PROVE  IInv'
  <1>1. /\ UNCHANGED <<pod, kernelMod, boot, node, nodeCopy, doomed>>
        /\ status' = copy.status
        /\ copy'.status = copy.status
        /\ pc = "patchStatus" /\ pc' = "deletePods"
    BY DEF SyncStatusPatch, hostVars, IInv, TypeOK, NMCCopy
  <1>2. BootsOK'
    <2>1. ASSUME NEW m \in Modules PROVE copy.status[m].boot <= node.boot
      <3>1. copy.status[m].boot \in Nat /\ nodeCopy.boot \in Nat /\ node.boot \in Nat
        BY StatusFacts, ConstantsAssumption DEF IInv, TypeOK, NMCCopy, NodeObject, Boots
      <3> QED  BY <3>1 DEF IInv, BootsOK
    <2> QED  BY <1>1, <2>1 DEF IInv, BootsOK
  <1>3. PodsOK' /\ CopyTracks' /\ PatchPending' /\ PatchTrue'
    BY <1>1 DEF IInv, PodsOK, CopyTracks, PatchPending, PatchTrue
  <1>4. UnloaderConfig'
    BY <1>1 DEF IInv, UnloaderConfig, PatchPending
  <1>5. DoomedOK'
    BY <1>1 DEF IInv, DoomedOK
  <1>6. DeletedOK' /\ StatusTrue'
    BY <1>1 DEF IInv, PatchTrue, DeletedOK, StatusTrue, UnloadPending, NoClaim
  <1> QED  BY <1>2, <1>3, <1>4, <1>5, <1>6 DEF IInv

LEMMA SyncStatusDeleteKeeps ==
    ASSUME IInv, surprised \subseteq surprised', TypeOK', NEW failed \in SUBSET Modules, SyncStatusDelete(failed)
    PROVE  IInv'
  <1>1. /\ pc = "deletePods" /\ copy.status = status
        /\ pod' = DeletePods(doomed \ failed)
        /\ UNCHANGED <<status, kernelMod, boot, node>>
    BY DEF SyncStatusDelete, nmcVars, hostVars, IInv, CopyTracks
  <1>2. PodsOK' /\ UnloaderConfig' /\ DeletedOK' /\ StatusTrue'
    BY <1>1, DeleteKeepsTruth DEF IInv, DoomedOK, NoClaim
  <1>3. CASE failed # {}
    BY <1>1, <1>2, <1>3, FinishFrame DEF SyncStatusDelete, Finish
  <1>4. CASE failed = {}
    <2>1. pc' = "process" /\ UNCHANGED <<copy, nodeCopy, doomed>>
      BY <1>4 DEF SyncStatusDelete, localVars
    <2> QED
      BY <1>1, <1>2, <2>1
      DEF IInv, BootsOK, CopyTracks, PatchPending, PatchTrue, DoomedOK
  <1> QED  BY <1>3, <1>4

\* What ProcessModules makes of a worker Pod; it never deletes an unloader.
LEMMA ProcessedPodFacts ==
    ASSUME IInv, pc = "process", NEW m \in Modules, NEW p, p = ProcessedPod(m)
    PROVE  \/ p = pod[m]
           \/ pod[m].kind = "none" /\ p.kind # "unload" /\ p.phase = "Pending"
           \/ /\ pod[m].kind = "none" /\ m \notin Dropped
              /\ p.kind = "unload" /\ p.phase = "Pending" /\ p.config = status[m].config
           \/ /\ pod[m].kind = "load"
              /\ p.kind = "load" /\ p.phase = pod[m].phase
  <1>1. /\ pod[m] \in PodRecord
        /\ copy.status[m] = status[m]
        /\ pod[m].kind = "unload" /\ status[m] # NoStatus => pod[m].config = status[m].config
    BY DEF IInv, TypeOK, CopyTracks, UnloaderConfig
  <1>2. pod[m].kind = "load" =>
           LET q == [pod[m] EXCEPT !.life = "deleted"]
           IN  q.kind = "load" /\ q.phase = pod[m].phase
    BY <1>1 DEF PodRecord, NoPod
  <1>3. CASE InSpec(copy, m) /\ m \in nodeCopy.tolerated
    <2>1. p = ProcessModuleSpec(m) /\ m \notin Dropped
      BY <1>3 DEF ProcessedPod, Dropped, DropsStatus
    <2> QED
      BY <1>1, <1>2, <2>1 DEF ProcessModuleSpec, Exists, NewPod, NoPod
  <1>4. CASE ~InSpec(copy, m) /\ HasStatus(copy, m) /\ ~DropsStatus(m)
    <2>1. p = ProcessUnconfiguredModuleStatus(m) /\ m \notin Dropped
      BY <1>4 DEF ProcessedPod, Dropped
    <2>2. CASE pod[m].kind = "none"
      BY <1>1, <2>1, <2>2 DEF ProcessUnconfiguredModuleStatus, Exists, NewPod
    <2>3. CASE pod[m].kind = "load"
      BY <1>1, <1>2, <2>1, <2>3 DEF ProcessUnconfiguredModuleStatus, Exists
    <2>4. CASE pod[m].kind = "unload"
      <3>1. ~HashAnnotationDiffer(m, "unload", copy.status[m].config)
        BY <1>1, <1>4, <2>4 DEF HashAnnotationDiffer, HasStatus
      <3> QED  BY <2>1, <2>4, <3>1 DEF ProcessUnconfiguredModuleStatus, Exists
    <2> QED  BY <1>1, <2>2, <2>3, <2>4, PodFacts
  <1>5. CASE ~(InSpec(copy, m) /\ m \in nodeCopy.tolerated)
             /\ ~(~InSpec(copy, m) /\ HasStatus(copy, m) /\ ~DropsStatus(m))
    BY <1>5 DEF ProcessedPod
  <1> QED  BY <1>3, <1>4, <1>5

LEMMA ProcessModulesKeeps ==
    ASSUME IInv, surprised \subseteq surprised', TypeOK', NEW failed \in SUBSET Modules, ProcessModules(failed)
    PROVE  IInv'
  <1>1. /\ pc = "process" /\ pc' \in {"dropLabels", "gcInUse"}
        /\ copy.status = status
        /\ UNCHANGED <<kernelMod, boot, node, nodeCopy>>
    BY DEF ProcessModules, hostVars, IInv, CopyTracks
  <1>2. ASSUME NEW m \in Modules
        PROVE  /\ status'[m] = IF m \in Dropped \ failed THEN NoStatus ELSE status[m]
               /\ copy'.status[m] = IF m \in Dropped THEN NoStatus ELSE status[m]
               /\ pod'[m] = IF m \in failed THEN pod[m] ELSE ProcessedPod(m)
    BY <1>1 DEF ProcessModules
  <1>3. ASSUME NEW m \in Modules
        PROVE  \/ pod'[m] = pod[m]
               \/ pod[m].kind = "none" /\ pod'[m].kind # "unload" /\ pod'[m].phase = "Pending"
               \/ /\ pod[m].kind = "none" /\ m \notin Dropped
                  /\ pod'[m].kind = "unload" /\ pod'[m].phase = "Pending"
                  /\ pod'[m].config = status[m].config
               \/ /\ pod[m].kind = "load"
                  /\ pod'[m].kind = "load" /\ pod'[m].phase = pod[m].phase
    <2>1. CASE m \in failed
      BY <1>2, <2>1
    <2>2. CASE m \notin failed
      <3>1. pod'[m] = ProcessedPod(m)
        BY <1>2, <2>2
      <3> QED  BY <1>1, <3>1, ProcessedPodFacts
    <2> QED  BY <2>1, <2>2
  <1>4. /\ boot \in Nat /\ node.boot \in Nat /\ nodeCopy.boot \in Nat
        /\ node.boot <= boot /\ nodeCopy.boot <= node.boot
    BY ConstantsAssumption DEF IInv, TypeOK, NodeObject, Boots, BootsOK
  <1>5. ASSUME NEW m \in Modules
        PROVE  /\ status[m].boot \in Nat
               /\ status[m].boot <= nodeCopy.boot /\ status[m].boot <= node.boot
    BY <1>1, StatusFacts, ConstantsAssumption DEF IInv, TypeOK, Boots, BootsOK
  <1>6. BootsOK'
    <2>1. ASSUME NEW m \in Modules
          PROVE  status'[m].boot \in {0, status[m].boot} /\ copy'.status[m].boot \in {0, status[m].boot}
      BY <1>2 DEF NoStatus
    <2> QED  BY <1>1, <1>4, <1>5, <2>1 DEF BootsOK
  <1>7. CopyTracks'
    <2>1. ASSUME NEW m \in Modules
          PROVE  copy'.status[m] = status'[m] \/ status'[m].boot < boot
      <3>1. CASE m \in Dropped /\ m \in failed
        <4>1. status'[m] = status[m] /\ status[m].boot # nodeCopy.boot
          BY <1>1, <1>2, <3>1 DEF Dropped, DropsStatus, IsNodeRebooted
        <4> QED  BY <1>4, <1>5, <4>1
      <3>2. CASE ~(m \in Dropped /\ m \in failed)
        BY <1>2, <3>2
      <3> QED  BY <3>1, <3>2
    <2> QED  BY <1>1, <2>1 DEF CopyTracks
  <1>8. PodsOK'
    BY <1>1, <1>3 DEF IInv, PodsOK
  <1>9. UnloaderConfig'
    BY <1>2, <1>3 DEF IInv, UnloaderConfig
  <1>10. DeletedOK' /\ StatusTrue'
    BY <1>1, <1>2, <1>3 DEF IInv, DeletedOK, StatusTrue, UnloadPending, NoClaim
  <1>11. PatchPending' /\ PatchTrue' /\ DoomedOK'
    BY <1>1 DEF PatchPending, PatchTrue, DoomedOK
  <1> QED  BY <1>6, <1>7, <1>8, <1>9, <1>10, <1>11 DEF IInv

LEMMA GarbageCollectKeeps ==
    ASSUME IInv, surprised \subseteq surprised', TypeOK',
           \/ \E ok \in BOOLEAN : GarbageCollectInUseLabels(ok)
           \/ \E failed \in SUBSET Modules : GarbageCollectWorkerPods(failed)
    PROVE  IInv'
  <1>1. ASSUME NEW ok \in BOOLEAN, GarbageCollectInUseLabels(ok)
        PROVE  IInv'
    <2>1. /\ pc = "gcInUse" /\ pc' = "gcPods"
          /\ UNCHANGED <<status, pod, kernelMod, boot, node, nodeCopy, doomed>>
          /\ copy' = copy \/ copy'.status = status
      BY <1>1 DEF GarbageCollectInUseLabels, hostVars
    <2>2. BootsOK' /\ CopyTracks'
      BY <2>1 DEF IInv, BootsOK, CopyTracks
    <2>3. PodsOK' /\ UnloaderConfig' /\ DeletedOK' /\ StatusTrue'
      BY <2>1 DEF IInv, PodsOK, UnloaderConfig, DeletedOK, StatusTrue, UnloadPending, NoClaim
    <2> QED  BY <2>1, <2>2, <2>3 DEF IInv, PatchPending, PatchTrue, DoomedOK
  <1>2. ASSUME NEW failed \in SUBSET Modules, GarbageCollectWorkerPods(failed)
        PROVE  IInv'
    <2>1. /\ pc = "gcPods" /\ pc' = "nodeLabels"
          /\ pod' = DeletePods(OrphanPods \ failed)
          /\ UNCHANGED <<status, kernelMod, boot, node, copy, nodeCopy, doomed>>
      BY <1>2 DEF GarbageCollectWorkerPods, nmcVars, hostVars, localVars
    <2>2. ASSUME NEW m \in OrphanPods \ failed
          PROVE  m \in Modules /\ NoClaim(status[m])
      <3>1. m \in Modules /\ copy.status[m] = NoStatus
        BY DEF OrphanPods, PresentNames, HasStatus
      <3>2. status[m].boot \in Nat /\ boot \in Nat
        BY <3>1, StatusFacts, ConstantsAssumption DEF IInv, TypeOK, Boots
      <3> QED  BY <2>1, <3>1, <3>2 DEF IInv, CopyTracks, NoClaim
    <2>3. PodsOK' /\ UnloaderConfig' /\ DeletedOK' /\ StatusTrue'
      BY <2>1, <2>2, DeleteKeepsTruth
    <2> QED
      BY <2>1, <2>3 DEF IInv, BootsOK, CopyTracks, PatchPending, PatchTrue, DoomedOK
  <1> QED  BY <1>1, <1>2

\* Reconcile ends: UpdateLabels, UpdateNodeLabels, or an error.
LEMMA EndKeeps ==
    ASSUME IInv, surprised \subseteq surprised', TypeOK',
           ReconcileFails \/ \E ok \in BOOLEAN : UpdateLabels(ok) \/ UpdateNodeLabels(ok)
    PROVE  IInv'
  <1>1. /\ UNCHANGED <<status, pod, kernelMod, boot>>
        /\ pc' = "idle" /\ copy' = EmptyCopy /\ nodeCopy' = EmptyNode
    BY DEF ReconcileFails, UpdateLabels, UpdateNodeLabels, Finish, nmcVars, hostVars
  <1>2. node'.boot = node.boot
    BY DEF ReconcileFails, UpdateLabels, UpdateNodeLabels, IInv, TypeOK, NodeObject
  <1>3. PodsOK' /\ UnloaderConfig' /\ DeletedOK' /\ StatusTrue'
    BY <1>1 DEF IInv, PodsOK, UnloaderConfig, DeletedOK, StatusTrue, UnloadPending, NoClaim
  <1> QED  BY <1>1, <1>2, <1>3, FinishFrame

------------------------------------------------------------------------------
\* The steps of the Pods and of the node keep IInv

\* A Pod starts, restarts, fails or is evicted: nothing a Pod achieved is lost.
LEMMA QuietPodKeeps ==
    ASSUME IInv, surprised \subseteq surprised', TypeOK', NEW k \in Modules,
           PodStarts(k) \/ PodRestarts(k) \/ PodFails(k) \/ PodEvicted(k)
    PROVE  IInv'
  <1>1. /\ UNCHANGED <<status, kernelMod, boot, node, pc, copy, nodeCopy, doomed>>
        /\ \A m \in Modules \ {k} : pod'[m] = pod[m]
    BY DEF PodStarts, PodRestarts, PodFails, PodEvicted, PodMoves, nmcVars, localVars, IInv, TypeOK
  <1>2. pod[k] \in PodRecord /\ pod[k] # NoPod /\ pod \in [Modules -> PodRecord]
    BY DEF PodStarts, PodRestarts, PodFails, PodEvicted, Exists, IInv, TypeOK, NoPod
  <1>3. /\ pod'[k].kind = pod[k].kind
        /\ pod'[k].config = pod[k].config
        /\ pod'[k].phase = "Succeeded" <=> pod[k].phase = "Succeeded"
        /\ pod[k].phase = "Failed" => pod'[k].phase = "Failed"
        /\ pod'[k].life = "deleted" <=> pod[k].life = "deleted"
    <2>1. ASSUME NEW p, PodMoves(k, p) PROVE pod'[k] = p
      BY <1>2, <2>1 DEF PodMoves
    <2>2. CASE PodStarts(k)
      <3>1. pod'[k] = [pod[k] EXCEPT !.phase = "Running"] /\ pod[k].phase = "Pending"
        BY <2>1, <2>2 DEF PodStarts
      <3> QED  BY <1>2, <3>1 DEF PodRecord
    <2>3. CASE PodRestarts(k)
      <3>1. pod'[k] = [pod[k] EXCEPT !.restarted = TRUE]
        BY <2>1, <2>3 DEF PodRestarts
      <3> QED  BY <1>2, <3>1 DEF PodRecord
    <2>4. CASE PodFails(k)
      <3>1. pod'[k] = [pod[k] EXCEPT !.phase = "Failed"] /\ pod[k].phase # "Succeeded"
        BY <2>1, <2>4 DEF PodFails
      <3> QED  BY <1>2, <3>1 DEF PodRecord
    <2>5. CASE PodEvicted(k)
      <3>1. /\ pod'[k] = [pod[k] EXCEPT !.life = "evicted",
                                        !.phase = IF @ = "Succeeded" THEN @ ELSE "Failed"]
            /\ pod[k].life = "live"
        BY <2>1, <2>5 DEF PodEvicted
      <3> QED  BY <1>2, <3>1 DEF PodRecord
    <2> QED  BY <2>2, <2>3, <2>4, <2>5
  <1>4. \A m \in Modules :
            /\ pod'[m].kind = pod[m].kind
            /\ pod'[m].config = pod[m].config
            /\ pod'[m].phase = "Succeeded" <=> pod[m].phase = "Succeeded"
            /\ pod[m].phase = "Failed" => pod'[m].phase = "Failed"
            /\ pod'[m].life = "deleted" <=> pod[m].life = "deleted"
    BY <1>1, <1>3
  <1>5. \A m \in doomed : m \in Modules
    BY DEF IInv, TypeOK
  <1>6. BootsOK' /\ PodsOK' /\ CopyTracks' /\ UnloaderConfig' /\ PatchPending'
    BY <1>1, <1>4 DEF IInv, BootsOK, PodsOK, CopyTracks, UnloaderConfig, PatchPending
  <1>7. PatchTrue' /\ DeletedOK' /\ StatusTrue'
    BY <1>1, <1>4 DEF IInv, PatchTrue, DeletedOK, StatusTrue, UnloadPending, NoClaim
  <1>8. DoomedOK'
    BY <1>1, <1>4, <1>5 DEF IInv, DoomedOK
  <1> QED  BY <1>6, <1>7, <1>8 DEF IInv

LEMMA PodGoneKeeps ==
    ASSUME IInv, surprised \subseteq surprised', TypeOK', NEW k \in Modules, PodGone(k)
    PROVE  IInv'
  <1>1. /\ UNCHANGED <<status, kernelMod, boot, node, pc, copy, nodeCopy, doomed>>
        /\ pod[k].life = "deleted"
        /\ \A m \in Modules : pod'[m] = IF m = k THEN NoPod ELSE pod[m]
    BY DEF PodGone, PodMoves, nmcVars, localVars, IInv, TypeOK
  <1>2. \A m \in Modules :
            \/ pod'[m] = pod[m]
            \/ pod'[m].kind = "none" /\ pod[m].life = "deleted"
    BY <1>1 DEF NoPod
  <1>3. \A m \in doomed : m \in Modules
    BY DEF IInv, TypeOK
  <1>4. BootsOK' /\ PodsOK' /\ CopyTracks' /\ UnloaderConfig' /\ PatchPending'
    BY <1>1, <1>2 DEF IInv, BootsOK, PodsOK, CopyTracks, UnloaderConfig, PatchPending
  <1>5. PatchTrue' /\ DeletedOK' /\ StatusTrue'
    BY <1>1, <1>2 DEF IInv, PatchTrue, DeletedOK, StatusTrue, UnloadPending, NoClaim
  <1>6. DoomedOK'
    BY <1>1, <1>2, <1>3 DEF IInv, DoomedOK
  <1> QED  BY <1>4, <1>5, <1>6 DEF IInv

LEMMA PodSucceedsKeeps ==
    ASSUME IInv, surprised \subseteq surprised', TypeOK', NEW k \in Modules, PodSucceeds(k)
    PROVE  IInv'
  <1>1. /\ UNCHANGED <<status, boot, node, pc, copy, nodeCopy, doomed>>
        /\ pod[k].phase = "Running" /\ pod[k].life = "live"
        /\ \A m \in Modules \ {k} : pod'[m] = pod[m]
    BY DEF PodSucceeds, PodMoves, nmcVars, localVars, IInv, TypeOK
  <1>2. pod[k] \in PodRecord /\ pod[k] # NoPod /\ pod[k].config \in Config
    <2>1. pod[k] \in PodRecord /\ pod[k].kind # "none"
      BY DEF PodSucceeds, Exists, IInv, TypeOK
    <2>2. pod[k] # NoPod
      BY <2>1 DEF NoPod
    <2>3. pod[k].config \in Config
      BY <2>1, PodFacts
    <2> QED  BY <2>1, <2>2, <2>3
  <1>3. /\ pod'[k].kind = pod[k].kind
        /\ pod'[k].config = pod[k].config
        /\ pod'[k].phase = "Succeeded"
        /\ pod'[k].life = "live"
    BY <1>1, <1>2 DEF PodSucceeds, PodMoves, PodRecord, IInv, TypeOK
  <1>4. /\ \A m \in Modules \ {k} : kernelMod'[m] = kernelMod[m]
        /\ pod[k].kind = "load" => kernelMod'[k] # NoConfig
    BY <1>2, ConstantsAssumption DEF PodSucceeds, WorkerEffect, LoadKmod, UnloadKmod, IInv, TypeOK
  <1>5. pod[k].kind \in {"load", "unload"}
    BY <1>2 DEF PodRecord
  <1>6. \A m \in doomed : m \in Modules
    BY DEF IInv, TypeOK
  <1>7. BootsOK' /\ CopyTracks'
    BY <1>1 DEF IInv, BootsOK, CopyTracks
  <1>8. PodsOK' /\ UnloaderConfig' /\ PatchPending'
    BY <1>1, <1>3, <1>4 DEF IInv, PodsOK, UnloaderConfig, PatchPending
  <1>9. PatchTrue' /\ DeletedOK' /\ StatusTrue'
    BY <1>1, <1>3, <1>4, <1>5 DEF IInv, PatchTrue, DeletedOK, StatusTrue, UnloadPending, NoClaim
  <1>10. DoomedOK'
    BY <1>1, <1>3, <1>6 DEF IInv, DoomedOK
  <1> QED  BY <1>7, <1>8, <1>9, <1>10 DEF IInv

\* The worker's Module is surprised; nothing happens to the others.
LEMMA WorkerActsUnseenKeeps ==
    ASSUME IInv, surprised \subseteq surprised', TypeOK',
           NEW k \in Modules, WorkerActsUnseen(k), k \in surprised'
    PROVE  IInv'
  <1>1. /\ UNCHANGED <<status, pod, boot, node, pc, copy, nodeCopy, doomed>>
        /\ \A m \in Modules \ {k} : kernelMod'[m] = kernelMod[m]
    BY DEF WorkerActsUnseen, WorkerEffect, LoadKmod, UnloadKmod, nmcVars, localVars, IInv, TypeOK
  <1>2. \A m \in Modules \ surprised' : m \notin surprised /\ kernelMod'[m] = kernelMod[m]
    BY <1>1
  <1>3. PodsOK' /\ PatchTrue' /\ DeletedOK' /\ StatusTrue'
    BY <1>1, <1>2 DEF IInv, PodsOK, PatchTrue, DeletedOK, StatusTrue, UnloadPending, NoClaim
  <1> QED
    BY <1>1, <1>3
    DEF IInv, BootsOK, CopyTracks, UnloaderConfig, PatchPending, DoomedOK

\* After a reboot no entry claims anything; what a completed loader loaded is gone.
LEMMA RebootKeeps ==
    ASSUME IInv, TypeOK', Reboot, Surprise
    PROVE  IInv'
  <1>1. /\ UNCHANGED <<status, node, pc, copy, nodeCopy, doomed>>
        /\ boot \in Nat /\ boot' = boot + 1
        /\ surprised' = {m \in Modules : pod[m].kind = "load" /\ pod[m].phase = "Succeeded"}
    BY ConstantsAssumption DEF Reboot, Surprise, IInv, TypeOK, Boots, nmcVars, localVars
  <1>2. ASSUME NEW m \in Modules
        PROVE  /\ pod'[m].kind = pod[m].kind
               /\ pod'[m].config = pod[m].config
               /\ pod'[m].phase = pod[m].phase
    <2>1. pod[m] \in PodRecord
      BY DEF IInv, TypeOK
    <2>2. pod'[m] = IF pod[m].phase = "Running" THEN [pod[m] EXCEPT !.restarted = TRUE] ELSE pod[m]
      BY DEF Reboot
    <2> QED  BY <2>1, <2>2 DEF PodRecord, NoPod
  <1>3. /\ boot \in Nat /\ node.boot \in Nat /\ nodeCopy.boot \in Nat
        /\ node.boot <= boot /\ nodeCopy.boot <= node.boot
    BY ConstantsAssumption DEF IInv, TypeOK, NodeObject, Boots, BootsOK
  <1>4. ASSUME NEW m \in Modules
        PROVE  /\ status[m].boot \in Nat /\ copy.status[m].boot \in Nat
               /\ status[m].boot <= node.boot /\ copy.status[m].boot <= nodeCopy.boot
    BY StatusFacts, ConstantsAssumption DEF IInv, TypeOK, NMCCopy, Boots, BootsOK
  <1>5. ASSUME NEW m \in Modules
        PROVE  status[m].boot < boot' /\ copy.status[m].boot < boot'
    BY <1>1, <1>3, <1>4
  <1>6. ASSUME NEW m \in Modules
        PROVE  status[m].boot # boot' /\ copy.status[m].boot # boot'
    BY <1>1, <1>3, <1>4
  <1>7. \A m \in doomed : m \in Modules
    BY DEF IInv, TypeOK
  <1>8. BootsOK'
    BY <1>1, <1>3 DEF IInv, BootsOK
  <1>9. CopyTracks'
    BY <1>1, <1>5 DEF IInv, CopyTracks
  <1>10. PodsOK' /\ UnloaderConfig' /\ PatchPending'
    BY <1>1, <1>2 DEF IInv, PodsOK, UnloaderConfig, PatchPending
  <1>11. PatchTrue' /\ DeletedOK' /\ StatusTrue'
    BY <1>1, <1>6 DEF PatchTrue, DeletedOK, StatusTrue, NoClaim
  <1>12. DoomedOK'
    BY <1>1, <1>2, <1>7 DEF IInv, DoomedOK
  <1> QED  BY <1>8, <1>9, <1>10, <1>11, <1>12 DEF IInv

LEMMA NodeReportsKeeps ==
    ASSUME IInv, surprised \subseteq surprised', TypeOK', NodeReports
    PROVE  IInv'
  <1>1. /\ UNCHANGED <<status, pod, kernelMod, boot, pc, copy, nodeCopy, doomed>>
        /\ node'.boot = boot
    BY DEF NodeReports, nmcVars, hostVars, localVars, IInv, TypeOK, NodeObject
  <1>2. /\ boot \in Nat /\ node.boot \in Nat /\ nodeCopy.boot \in Nat
        /\ node.boot <= boot /\ nodeCopy.boot <= node.boot
    BY ConstantsAssumption DEF IInv, TypeOK, NodeObject, Boots, BootsOK
  <1>3. ASSUME NEW m \in Modules
        PROVE  status[m].boot \in Nat /\ status[m].boot <= node.boot
    BY StatusFacts, ConstantsAssumption DEF IInv, TypeOK, Boots, BootsOK
  <1>4. BootsOK'
    BY <1>1, <1>2, <1>3 DEF IInv, BootsOK
  <1> QED
    BY <1>1, <1>4
    DEF IInv, PodsOK, CopyTracks, UnloaderConfig, PatchPending, NoClaim,
        UnloadPending, PatchTrue, DoomedOK, DeletedOK, StatusTrue

\* The steps of the user, the Module controller, taints and readiness
LEMMA OthersKeep ==
    ASSUME IInv, surprised \subseteq surprised', TypeOK',
           ModuleController \/ NodeReady \/ (\E ms \in SUBSET Modules : TaintsChange(ms))
             \/ UNCHANGED vars
    PROVE  IInv'
  <1>1. UNCHANGED <<status, pod, kernelMod, boot, pc, copy, nodeCopy, doomed>>
    BY DEF ModuleController, EnableModule, DisableModule, FinalizeRemove, FinalizeRelease,
           CreateModule, DeleteModule, RemoveModuleFromNMC, NodeReady, TaintsChange,
           vars, nmcVars, hostVars, localVars
  <1>2. node'.boot = node.boot
    BY DEF ModuleController, EnableModule, DisableModule, FinalizeRemove, FinalizeRelease,
           CreateModule, DeleteModule, RemoveModuleFromNMC, NodeReady, TaintsChange,
           vars, IInv, TypeOK, NodeObject
  <1> QED  BY <1>1, <1>2, Frame

LEMMA InvNext == IInv /\ [Next /\ Surprise]_<<vars, surprised>> => IInv'
  <1> SUFFICES ASSUME IInv, [Next /\ Surprise]_<<vars, surprised>> PROVE IInv'
    OBVIOUS
  <1>1. TypeOK'
    BY TypeNext DEF IInv
  <1>2. ASSUME boot' = boot PROVE surprised \subseteq surprised'
    BY <1>2 DEF Surprise
  <1>3. CASE NMCController
    <2>1. boot' = boot
      BY <1>3 DEF NMCController, Reconcile, SyncStatusPatch, ReconcileFails, SyncStatusDelete,
                  ProcessModules, GarbageCollectWorkerPods, UpdateLabels,
                  GarbageCollectInUseLabels, UpdateNodeLabels, hostVars
    <2> QED
      BY <1>1, <1>2, <1>3, <2>1, ReconcileKeeps, SyncStatusPatchKeeps, SyncStatusDeleteKeeps,
         ProcessModulesKeeps, GarbageCollectKeeps, EndKeeps
      DEF NMCController
  <1>4. CASE Kubelet /\ Surprise
    <2>1. PICK k \in Modules :
              \/ PodStarts(k) \/ PodRestarts(k) \/ PodFails(k) \/ PodSucceeds(k)
              \/ WorkerActsUnseen(k) \/ PodEvicted(k) \/ PodGone(k)
      BY <1>4 DEF Kubelet
    <2>2. boot' = boot
      BY <2>1 DEF PodStarts, PodRestarts, PodFails, PodSucceeds, WorkerActsUnseen, PodEvicted,
                  PodGone, PodMoves
    <2>3. ASSUME WorkerActsUnseen(k) PROVE k \in surprised'
      <3>1. kernelMod' # kernelMod /\ kernelMod' = WorkerEffect(k) /\ pod' = pod
        BY <2>3 DEF WorkerActsUnseen
      <3>2. kernelMod'[k] # kernelMod[k]
        BY <3>1 DEF WorkerEffect, LoadKmod, UnloadKmod, IInv, TypeOK
      <3> QED  BY <1>4, <2>2, <3>1, <3>2 DEF Surprise
    <2> QED
      BY <1>1, <1>2, <2>1, <2>2, <2>3, QuietPodKeeps, PodGoneKeeps, PodSucceedsKeeps,
         WorkerActsUnseenKeeps
  <1>5. CASE Reboot /\ Surprise
    BY <1>1, <1>5, RebootKeeps
  <1>6. CASE \/ NodeReports \/ NodeReady \/ (\E ms \in SUBSET Modules : TaintsChange(ms))
             \/ ModuleController \/ UNCHANGED <<vars, surprised>>
    <2>1. boot' = boot
      BY <1>6 DEF NodeReports, NodeReady, TaintsChange, ModuleController, EnableModule,
                  DisableModule, FinalizeRemove, FinalizeRelease, CreateModule, DeleteModule,
                  RemoveModuleFromNMC, vars, hostVars
    <2> QED  BY <1>1, <1>2, <1>6, <2>1, NodeReportsKeeps, OthersKeep
  <1> QED  BY <1>3, <1>4, <1>5, <1>6 DEF Next, Host

(***************************************************************************)
(* A status entry of the current boot is true of the kernel, on any number *)
(* of Modules and reboots and with any failing call, for every Module but  *)
(* those a reboot over a completed loader Pod, or a worker whose Pod does  *)
(* not show what it did, has taken by surprise in this boot.  No other     *)
(* interleaving of SyncStatus, Pods and reboots makes an entry false.      *)
(***************************************************************************)
THEOREM StatusTellsTruth == HistorySpec => []StatusTrue
  <1>1. IInv => StatusTrue
    BY DEF IInv
  <1> QED  BY <1>1, InvInit, InvNext, PTL DEF HistorySpec

------------------------------------------------------------------------------
\* Loaders and the status

\* The entry t fits the loader Pod p.
Matches(t, p) ==
    p.kind = "load" /\ t # NoStatus
        => \/ t.config = p.config
           \/ t.config.kernel # p.config.kernel
           \/ /\ p.phase = "Succeeded" /\ p.config.option = NoOption
              /\ t.config = [p.config EXCEPT !.option = t.config.option]

\* The entries there are, and those about to be written, fit the Pods; Pods are
\* made from entries that are in the status.
MatchInv ==
    /\ TypeOK
    /\ pc \in {"deletePods", "process"} => copy.status = status
    /\ \A m \in Modules : Matches(status[m], pod[m])
    /\ pc = "patchStatus" => \A m \in Modules : Matches(copy.status[m], pod[m])

\* A Pod keeps its kind and its config, and what it has completed, while it is there.
LEMMA MatchStays ==
    ASSUME NEW t, NEW p, NEW q, Matches(t, p),
           \/ q.kind = "none"
           \/ /\ q.kind = p.kind /\ q.config = p.config
              /\ p.phase = "Succeeded" => q.phase = "Succeeded"
    PROVE  Matches(t, q)
  BY DEF Matches

LEMMA MatchFrame ==
    ASSUME MatchInv, TypeOK', UNCHANGED status,
           \/ UNCHANGED <<pc, copy>>
           \/ pc' \notin {"patchStatus", "deletePods", "process"}
           \/ pc = "deletePods" /\ pc' = "process" /\ UNCHANGED copy,
           \A m \in Modules :
               \/ pod'[m].kind = "none"
               \/ /\ pod'[m].kind = pod[m].kind /\ pod'[m].config = pod[m].config
                  /\ pod[m].phase = "Succeeded" => pod'[m].phase = "Succeeded"
    PROVE  MatchInv'
  <1>1. \A m \in Modules : Matches(status[m], pod'[m])
    BY MatchStays DEF MatchInv
  <1>2. pc' = "patchStatus" => \A m \in Modules : Matches(copy'.status[m], pod'[m])
    BY MatchStays DEF MatchInv
  <1> QED  BY <1>1, <1>2 DEF MatchInv, Matches

\* What the kubelet and a reboot do to Pods.
LEMMA PodsKept ==
    ASSUME TypeOK, Kubelet \/ Reboot, NEW m \in Modules
    PROVE  \/ pod'[m].kind = "none"
           \/ /\ pod'[m].kind = pod[m].kind /\ pod'[m].config = pod[m].config
              /\ pod[m].phase = "Succeeded" => pod'[m].phase = "Succeeded"
  <1>t. pod[m] \in PodRecord /\ pod \in [Modules -> PodRecord]
    BY DEF TypeOK
  <1>1. ASSUME NEW k \in Modules, NEW p, PodMoves(k, p)
        PROVE  pod'[m] = IF m = k THEN p ELSE pod[m]
    BY <1>1, <1>t DEF PodMoves
  <1>2. ASSUME Exists(m)
        PROVE  /\ \A ph \in {"Running", "Succeeded", "Failed"} :
                     LET p == [pod[m] EXCEPT !.phase = ph]
                     IN p.kind = pod[m].kind /\ p.config = pod[m].config /\ p.phase = ph
               /\ LET p == [pod[m] EXCEPT !.restarted = TRUE]
                  IN p.kind = pod[m].kind /\ p.config = pod[m].config /\ p.phase = pod[m].phase
               /\ LET p == [pod[m] EXCEPT !.life = "evicted",
                                          !.phase = IF @ = "Succeeded" THEN @ ELSE "Failed"]
                  IN /\ p.kind = pod[m].kind /\ p.config = pod[m].config
                     /\ pod[m].phase = "Succeeded" => p.phase = "Succeeded"
    <2>1. pod[m] # NoPod
      BY <1>2 DEF Exists, NoPod
    <2> QED  BY <1>t, <2>1 DEF PodRecord
  <1>3. ASSUME NEW k \in Modules, PodStarts(k) \/ PodRestarts(k) \/ PodFails(k) \/ PodSucceeds(k)
                                   \/ PodEvicted(k) \/ PodGone(k) \/ WorkerActsUnseen(k)
        PROVE  \/ pod'[m].kind = "none"
               \/ /\ pod'[m].kind = pod[m].kind /\ pod'[m].config = pod[m].config
                  /\ pod[m].phase = "Succeeded" => pod'[m].phase = "Succeeded"
    <2>1. CASE WorkerActsUnseen(k)
      BY <2>1 DEF WorkerActsUnseen
    <2>2. CASE PodGone(k)
      BY <2>2, <1>1 DEF PodGone, NoPod
    <2>3. CASE PodStarts(k) \/ PodRestarts(k)
      BY <2>3, <1>1, <1>2 DEF PodStarts, PodRestarts
    <2>4. CASE PodFails(k) \/ PodSucceeds(k)
      BY <2>4, <1>1, <1>2 DEF PodFails, PodSucceeds
    <2>5. CASE PodEvicted(k)
      BY <2>5, <1>1, <1>2 DEF PodEvicted
    <2> QED  BY <1>3, <2>1, <2>2, <2>3, <2>4, <2>5
  <1>4. CASE Reboot
    <2>1. pod'[m] = IF pod[m].phase = "Running" THEN [pod[m] EXCEPT !.restarted = TRUE] ELSE pod[m]
      BY <1>4 DEF Reboot
    <2> QED  BY <1>t, <2>1 DEF PodRecord, NoPod
  <1> QED  BY <1>3, <1>4 DEF Kubelet

\* SyncStatus records the config of a loader, with the options it omits.
LEMMA SyncedMatches ==
    ASSUME MatchInv, NEW m \in Modules
    PROVE  Matches(SyncedStatus(m), pod[m])
  <1>t. status[m] \in StatusEntry /\ pod[m] \in PodRecord
    BY DEF MatchInv, TypeOK
  <1>1. CASE Exists(m) /\ pod[m].phase = "Succeeded" /\ pod[m].kind = "load"
    <2> DEFINE old == status[m].config
               new == pod[m].config
               t == SyncedStatus(m)
    <2>1. t.config = Unmarshal(old, new)
      BY <1>1 DEF SyncedStatus
    <2>2. new \in Config
      BY <1>1, <1>t, PodFacts DEF Exists
    <2>3. CASE old # NoConfig /\ new.option = NoOption
      <3>1. t.config = [new EXCEPT !.option = old.option]
        BY <2>1, <2>3 DEF Unmarshal
      <3> HIDE DEF t, old, new
      <3>2. t.config.option = old.option
        BY <3>1, <2>2 DEF Config
      <3> QED  BY <1>1, <2>3, <3>1, <3>2 DEF Matches, t, new
    <2>4. CASE ~(old # NoConfig /\ new.option = NoOption)
      <3>1. t.config = new
        BY <2>1, <2>4 DEF Unmarshal
      <3> QED  BY <3>1 DEF Matches
    <2> QED  BY <2>3, <2>4
  <1>2. CASE Exists(m) /\ pod[m].phase = "Succeeded" /\ pod[m].kind # "load"
    BY <1>2 DEF Matches
  <1>3. CASE ~(Exists(m) /\ pod[m].phase = "Succeeded")
    BY <1>3 DEF SyncedStatus, MatchInv
  <1> QED  BY <1>1, <1>2, <1>3

\* A Pod that ProcessModules makes or leaves fits the entry it was made for.
LEMMA ProcessedMatches ==
    ASSUME MatchInv, pc = "process", NEW m \in Modules
    PROVE  Matches(status[m], ProcessedPod(m))
  <1>t. pod[m] \in PodRecord /\ copy.status = status /\ Matches(status[m], pod[m])
    BY DEF MatchInv, TypeOK
  <1>1. Exists(m) => Matches(status[m], [pod[m] EXCEPT !.life = "deleted"])
    <2> SUFFICES ASSUME Exists(m) PROVE Matches(status[m], [pod[m] EXCEPT !.life = "deleted"])
      OBVIOUS
    <2> DEFINE q == [pod[m] EXCEPT !.life = "deleted"]
    <2>1. pod[m] # NoPod
      BY DEF Exists, NoPod
    <2>2. q.kind = pod[m].kind /\ q.config = pod[m].config /\ q.phase = pod[m].phase
      BY <1>t, <2>1 DEF PodRecord
    <2> HIDE DEF q
    <2>3. Matches(status[m], q)
      BY <1>t, <2>2, MatchStays
    <2> QED  BY <2>3 DEF q
  <1>2. \A c : Matches(status[m], NewPod("unload", c)) /\ Matches(status[m], NoPod)
    BY DEF Matches, NewPod, NoPod
  <1>3. ASSUME NEW c, \/ status[m] = NoStatus \/ status[m].config = c
                      \/ status[m].config.kernel # c.kernel
        PROVE  Matches(status[m], NewPod("load", c))
    BY <1>3 DEF Matches, NewPod
  <1>4. Matches(status[m], ProcessModuleSpec(m))
    BY <1>t, <1>1, <1>2, <1>3 DEF ProcessModuleSpec
  <1>5. Matches(status[m], ProcessUnconfiguredModuleStatus(m))
    BY <1>t, <1>1, <1>2 DEF ProcessUnconfiguredModuleStatus
  <1> QED  BY <1>t, <1>4, <1>5 DEF ProcessedPod

LEMMA MatchNext == MatchInv /\ [Next]_vars => MatchInv'
  <1> SUFFICES ASSUME MatchInv, [Next]_vars PROVE MatchInv'
    OBVIOUS
  <1>t. TypeOK /\ TypeOK'
    BY TypeNext DEF MatchInv
  <1>1. CASE Reconcile
    <2>1. /\ UNCHANGED <<status, pod>>
          /\ copy'.status = [m \in Modules |-> SyncedStatus(m)]
          /\ pc' = IF \E m \in Modules : Exists(m) THEN "patchStatus" ELSE "process"
      BY <1>1 DEF Reconcile, nmcVars, currentNMC
    <2>2. \A m \in Modules : Matches(copy'.status[m], pod'[m]) /\ Matches(status'[m], pod'[m])
      BY <2>1, SyncedMatches DEF MatchInv
    <2>3. pc' = "process" => copy'.status = status'
      <3> SUFFICES ASSUME pc' = "process" PROVE copy'.status = status
        BY <2>1
      <3>1. \A m \in Modules : ~Exists(m)
        BY <2>1
      <3>2. [m \in Modules |-> SyncedStatus(m)] = [m \in Modules |-> status[m]]
        BY <3>1 DEF SyncedStatus
      <3> QED  BY <1>t, <2>1, <3>2 DEF TypeOK
    <2> QED  BY <1>t, <2>1, <2>2, <2>3 DEF MatchInv, Matches
  <1>2. CASE SyncStatusPatch
    <2>1. /\ pc = "patchStatus" /\ pc' = "deletePods" /\ UNCHANGED pod
          /\ status' = copy.status /\ copy'.status = copy.status
      BY <1>2, <1>t DEF SyncStatusPatch, TypeOK, NMCCopy
    <2> QED  BY <1>t, <2>1 DEF MatchInv, Matches
  <1>3. ASSUME NEW failed \in SUBSET Modules,
               SyncStatusDelete(failed) \/ GarbageCollectWorkerPods(failed)
        PROVE  MatchInv'
    <2>1. PICK ms : pod' = DeletePods(ms)
      BY <1>3 DEF SyncStatusDelete, GarbageCollectWorkerPods
    <2>2. /\ UNCHANGED status
          /\ \/ pc' \notin {"patchStatus", "deletePods", "process"}
             \/ pc = "deletePods" /\ pc' = "process" /\ UNCHANGED copy
      BY <1>3 DEF SyncStatusDelete, GarbageCollectWorkerPods, Finish, nmcVars, localVars
    <2>3. \A m \in Modules : /\ pod'[m].kind = pod[m].kind /\ pod'[m].config = pod[m].config
                             /\ pod'[m].phase = pod[m].phase
      BY <1>t, <2>1, DeletePodsFacts
    <2> QED  BY <1>t, <2>2, <2>3, MatchFrame
  <1>4. ASSUME NEW failed \in SUBSET Modules, ProcessModules(failed)
        PROVE  MatchInv'
    <2>1. /\ pc = "process" /\ pc' \in {"dropLabels", "gcInUse"}
          /\ pod' = [m \in Modules |-> IF m \in failed THEN pod[m] ELSE ProcessedPod(m)]
          /\ status' = [m \in Modules |-> IF m \in Dropped \ failed THEN NoStatus ELSE status[m]]
      BY <1>4 DEF ProcessModules
    <2>2. ASSUME NEW m \in Modules PROVE Matches(status'[m], pod'[m])
      <3>1. Matches(status[m], pod'[m])
        BY <2>1, ProcessedMatches DEF MatchInv
      <3>2. Matches(NoStatus, pod'[m])
        BY DEF Matches
      <3> QED  BY <2>1, <3>1, <3>2
    <2> QED  BY <1>t, <2>1, <2>2 DEF MatchInv, Matches
  <1>5. CASE ReconcileFails \/ \E ok \in BOOLEAN : UpdateLabels(ok) \/ GarbageCollectInUseLabels(ok)
                                                   \/ UpdateNodeLabels(ok)
    <2>1. UNCHANGED <<status, pod>> /\ pc' \notin {"patchStatus", "deletePods", "process"}
      BY <1>5 DEF ReconcileFails, UpdateLabels, GarbageCollectInUseLabels, UpdateNodeLabels, Finish, nmcVars
    <2> QED  BY <1>t, <2>1, MatchFrame
  <1>6. CASE Kubelet \/ Reboot
    <2>1. UNCHANGED <<status, pc, copy>>
      BY <1>6 DEF Kubelet, Reboot, PodStarts, PodRestarts, PodFails, PodSucceeds, WorkerActsUnseen,
                  PodEvicted, PodGone, PodMoves, nmcVars, localVars
    <2> QED  BY <1>t, <1>6, <2>1, PodsKept, MatchFrame
  <1>7. CASE UNCHANGED <<status, pod, pc, copy>>
    BY <1>t, <1>7, MatchFrame
  <1>8. CASE ModuleController \/ NodeReports \/ NodeReady \/ \E ms \in SUBSET Modules : TaintsChange(ms)
    BY <1>7, <1>8
    DEF ModuleController, EnableModule, DisableModule, FinalizeRemove, FinalizeRelease, CreateModule,
        DeleteModule, RemoveModuleFromNMC, NodeReports, NodeReady, TaintsChange, nmcVars, localVars
  <1> QED
    BY <1>1, <1>2, <1>3, <1>4, <1>5, <1>6, <1>7, <1>8 DEF Next, NMCController, Host, vars

(***************************************************************************)
(* A loader Pod is next to a status entry only for the same config or      *)
(* another kernel, for any Modules, options and reboots, whenever workers  *)
(* act and whichever calls fail: a config change within a kernel always    *)
(* goes through an unloader.                                               *)
(***************************************************************************)
THEOREM UnloadBeforeLoad == Spec => []LoaderMatchesStatus
  <1>1. Init => MatchInv
    <2> SUFFICES ASSUME Init PROVE MatchInv
      OBVIOUS
    <2>1. TypeOK /\ pc = "idle" /\ \A m \in Modules : pod[m] = NoPod
      BY TypeInit DEF Init
    <2> QED  BY <2>1 DEF MatchInv, Matches, NoPod
  <1>2. MatchInv => LoaderMatchesStatus
    BY DEF MatchInv, Matches, LoaderMatchesStatus
  <1> QED  BY <1>1, <1>2, MatchNext, PTL DEF Spec

------------------------------------------------------------------------------
\* What rests

\* The Pods SyncStatus would delete are deleted.
PodsSynced == \A m \in PodsToDelete : pod[m].life = "deleted"

EntriesDone ==
    \A m \in Modules :
        \/ Exists(m)
        \/ spec[m] # NoConfig /\ (Up /\ node.ready => status[m] = [config |-> spec[m], boot |-> boot])
        \/ spec[m] = NoConfig /\ status[m] = NoStatus

Present(m) == spec[m] # NoConfig \/ status[m] # NoStatus

InUsePresent == \A m \in inUse : Present(m)

\* The Pods GarbageCollectWorkerPods would delete are deleted.
PodsCollected ==
    \A m \in Modules : Exists(m) /\ (\A k \in Modules : NameOf[k] = NameOf[m] => ~Present(k))
        => pod[m].life = "deleted"

NodeLabelsRight ==
    /\ \A m \in Modules : spec[m] # NoConfig /\ spec[m] = status[m].config => m \in node.labels
    /\ \A m \in node.labels : Present(m)

\* The copies of a pass that nothing has disturbed are those of now.
CopiesFresh ==
    /\ pc # "idle" => nodeCopy = node /\ copy.spec = spec /\ copy.inUse = inUse
    /\ pc \in {"deletePods", "process", "gcInUse", "gcPods", "nodeLabels"} => copy.status = status
    /\ pc \in {"patchStatus", "deletePods"} => doomed = PodsToDelete

\* What such a pass has found in order so far.
PassSoFar ==
    /\ pc \notin {"patchStatus", "deletePods"} => PodsSynced
    /\ pc = "dropLabels" => ~AllTolerated
    /\ pc \in {"gcInUse", "gcPods", "nodeLabels"} => AllTolerated /\ EntriesDone
    /\ pc \in {"gcPods", "nodeLabels"} => InUsePresent
    /\ pc = "nodeLabels" => PodsCollected
    /\ pc = "idle" /\ AllTolerated => EntriesDone /\ InUsePresent /\ PodsCollected /\ NodeLabelsRight

RestInv == TypeOK /\ (~dirty => CopiesFresh /\ PassSoFar)

\* These look at the objects only.
LEMMA ObjectsSame ==
    ASSUME UNCHANGED <<spec, status, inUse, pod, boot, node>>
    PROVE  /\ PodsToDelete' = PodsToDelete /\ (PodsSynced => PodsSynced')
           /\ AllTolerated' = AllTolerated /\ (EntriesDone => EntriesDone')
           /\ (InUsePresent => InUsePresent') /\ (PodsCollected => PodsCollected')
           /\ (NodeLabelsRight => NodeLabelsRight')
  <1>1. PodsToDelete' = PodsToDelete /\ (PodsSynced => PodsSynced')
    BY DEF PodsSynced, PodsToDelete, Orphan, InSpec, HasStatus, currentNMC, Exists
  <1>2. AllTolerated' = AllTolerated
    BY DEF AllTolerated
  <1>3. EntriesDone => EntriesDone'
    BY DEF EntriesDone, Exists, Up
  <1>4. (InUsePresent => InUsePresent') /\ (PodsCollected => PodsCollected')
    BY DEF InUsePresent, PodsCollected, Present, Exists
  <1>5. NodeLabelsRight => NodeLabelsRight'
    BY DEF NodeLabelsRight, Present
  <1> QED  BY <1>1, <1>2, <1>3, <1>4, <1>5

\* Pods that SyncStatus or the garbage collector deletes without a change have been
\* deleted before.
LEMMA DeletedAlready ==
    ASSUME TypeOK, NEW ms, DeletePods(ms) = pod, NEW m \in Modules \cap ms, Exists(m)
    PROVE  pod[m].life = "deleted"
  <1>1. pod[m] \in PodRecord /\ pod[m] # NoPod
    BY DEF TypeOK, Exists, NoPod
  <1>2. DeletePods(ms)[m] = [pod[m] EXCEPT !.life = "deleted"]
    BY DEF DeletePods
  <1>3. [pod[m] EXCEPT !.life = "deleted"].life = "deleted"
    BY <1>1 DEF PodRecord
  <1> QED  BY <1>2, <1>3

LEMMA RestReconcile ==
    ASSUME RestInv, TypeOK', Reconcile
    PROVE  RestInv'
  <1>1. /\ UNCHANGED <<spec, status, inUse, pod, boot, node>>
        /\ nodeCopy' = node /\ doomed' = PodsToDelete
        /\ copy'.spec = spec /\ copy'.inUse = inUse
        /\ copy'.status = [m \in Modules |-> SyncedStatus(m)]
        /\ pc' = IF \E m \in Modules : Exists(m) THEN "patchStatus" ELSE "process"
    BY DEF Reconcile, nmcVars, hostVars, currentNMC
  <1>2. pc' = "process" => copy'.status = status /\ PodsToDelete = {}
    <2> SUFFICES ASSUME pc' = "process" PROVE copy'.status = status /\ PodsToDelete = {}
      OBVIOUS
    <2>1. \A m \in Modules : ~Exists(m)
      BY <1>1
    <2>2. [m \in Modules |-> SyncedStatus(m)] = [m \in Modules |-> status[m]]
      BY <2>1 DEF SyncedStatus
    <2> QED  BY <1>1, <2>1, <2>2 DEF PodsToDelete, RestInv, TypeOK
  <1>3. PodsToDelete' = PodsToDelete
    BY <1>1, ObjectsSame
  <1> QED  BY <1>1, <1>2, <1>3 DEF RestInv, CopiesFresh, PassSoFar, PodsSynced

LEMMA RestSyncStatus ==
    ASSUME RestInv, TypeOK',
           SyncStatusPatch \/ \E failed \in SUBSET Modules : SyncStatusDelete(failed)
    PROVE  RestInv'
  <1> SUFFICES ASSUME ~dirty' PROVE CopiesFresh' /\ PassSoFar'
    BY DEF RestInv
  <1>1. CASE SyncStatusPatch
    <2>1. /\ UNCHANGED <<spec, status, inUse, pod, boot, node, nodeCopy, doomed>> /\ ~dirty
          /\ pc = "patchStatus" /\ pc' = "deletePods"
          /\ copy'.spec = spec /\ copy'.inUse = inUse /\ copy'.status = status
      BY <1>1 DEF SyncStatusPatch, hostVars, RestInv, TypeOK, NMCCopy
    <2>2. PodsToDelete' = PodsToDelete
      BY <2>1, ObjectsSame
    <2> QED  BY <2>1, <2>2 DEF RestInv, CopiesFresh, PassSoFar
  <1>2. ASSUME NEW failed \in SUBSET Modules, SyncStatusDelete(failed)
        PROVE  CopiesFresh' /\ PassSoFar'
    <2>1. /\ UNCHANGED <<spec, status, inUse, pod, boot, node, copy, nodeCopy, doomed>> /\ ~dirty
          /\ pc = "deletePods" /\ pc' = "process" /\ failed = {}
          /\ DeletePods(doomed) = pod
      BY <1>2 DEF SyncStatusDelete, Finish, nmcVars, hostVars, localVars
    <2>2. doomed = PodsToDelete
      BY <2>1 DEF RestInv, CopiesFresh
    <2>3. PodsSynced
      BY <2>1, <2>2, DeletedAlready DEF PodsSynced, PodsToDelete, RestInv
    <2>4. PodsSynced'
      BY <2>1, <2>3, ObjectsSame
    <2> QED  BY <2>1, <2>4 DEF RestInv, CopiesFresh, PassSoFar
  <1> QED  BY <1>1, <1>2

\* A pass that changes nothing has found every entry in order.
LEMMA RestProcess ==
    ASSUME RestInv, TypeOK', NEW failed \in SUBSET Modules, ProcessModules(failed)
    PROVE  RestInv'
  <1> SUFFICES ASSUME ~dirty' PROVE CopiesFresh' /\ PassSoFar'
    BY DEF RestInv
  <1>1. /\ UNCHANGED <<spec, status, inUse, pod, boot, node, nodeCopy>> /\ ~dirty
        /\ pc = "process"
        /\ pc' = IF Unschedulable # {} THEN "dropLabels" ELSE "gcInUse"
        /\ Unschedulable = {} => failed = {}
        /\ pod = [m \in Modules |-> IF m \in failed THEN pod[m] ELSE ProcessedPod(m)]
        /\ status = [m \in Modules |-> IF m \in Dropped \ failed THEN NoStatus ELSE status[m]]
    BY DEF ProcessModules, hostVars
  <1>2. nodeCopy = node /\ copy.spec = spec /\ copy.status = status /\ copy.inUse = inUse /\ PodsSynced
    BY <1>1 DEF RestInv, CopiesFresh, PassSoFar
  <1>3. copy'.spec = spec /\ copy'.inUse = inUse
    BY <1>2 DEF ProcessModules
  <1>4. Unschedulable = {} <=> AllTolerated
    BY <1>2 DEF Unschedulable, AllTolerated, InSpec
  <1>5. PodsSynced' /\ AllTolerated' = AllTolerated /\ (EntriesDone => EntriesDone')
    BY <1>1, <1>2, ObjectsSame
  <1>6. CASE Unschedulable # {}
    BY <1>1, <1>2, <1>3, <1>4, <1>5, <1>6 DEF CopiesFresh, PassSoFar
  <1>7. CASE Unschedulable = {}
    <2>1. \A m \in Modules : pod[m] = ProcessedPod(m)
      BY <1>1, <1>7
    <2>2. ASSUME NEW m \in Modules PROVE ~DropsStatus(m)
      <3> SUFFICES ASSUME DropsStatus(m) PROVE FALSE
        OBVIOUS
      <3>1. m \in Dropped \ failed
        BY <1>1, <1>7 DEF Dropped
      <3>2. status[m] = NoStatus
        BY <1>1, <3>1
      <3> QED  BY <1>2, <3>2 DEF DropsStatus, HasStatus
    <2>3. copy'.status = status
      <3>1. Dropped = {}
        BY <2>2 DEF Dropped
      <3>2. copy'.status = [m \in Modules |-> copy.status[m]]
        BY <3>1 DEF ProcessModules
      <3> QED  BY <1>2, <3>2 DEF RestInv, TypeOK
    <2>4. EntriesDone
      <3> SUFFICES ASSUME NEW m \in Modules, ~Exists(m)
                   PROVE  \/ /\ spec[m] # NoConfig
                             /\ Up /\ node.ready => status[m] = [config |-> spec[m], boot |-> boot]
                          \/ spec[m] = NoConfig /\ status[m] = NoStatus
        BY DEF EntriesDone
      <3>1. ProcessedPod(m).kind = "none"
        BY <2>1 DEF Exists
      <3>2. NoPod.kind = "none" /\ \A c : NewPod("load", c).kind = "load" /\ NewPod("unload", c).kind = "unload"
        BY DEF NoPod, NewPod
      <3>3. CASE spec[m] # NoConfig
        <4>1. ProcessModuleSpec(m).kind = "none"
          BY <1>2, <1>4, <1>7, <3>1, <3>3 DEF ProcessedPod, InSpec, AllTolerated
        <4>2. status[m] # NoStatus /\ status[m].config = spec[m] /\ ~IsNodeRebooted(node, status[m].boot)
          BY <1>2, <3>2, <4>1 DEF ProcessModuleSpec
        <4>3. Up /\ node.ready => status[m].boot = boot
          BY <4>2 DEF IsNodeRebooted, Up
        <4>4. status[m] = [config |-> status[m].config, boot |-> status[m].boot]
          BY <4>2 DEF RestInv, TypeOK, StatusEntry
        <4> QED  BY <3>3, <4>2, <4>3, <4>4
      <3>4. CASE spec[m] = NoConfig
        <4>1. ASSUME status[m] # NoStatus PROVE FALSE
          <5>1. ProcessUnconfiguredModuleStatus(m).kind = "none"
            BY <1>2, <2>2, <3>1, <3>4, <4>1 DEF ProcessedPod, InSpec, HasStatus
          <5> QED  BY <3>2, <5>1 DEF ProcessUnconfiguredModuleStatus
        <4> QED  BY <3>4, <4>1
      <3> QED  BY <3>3, <3>4
    <2> QED  BY <1>1, <1>2, <1>3, <1>4, <1>5, <1>7, <2>3, <2>4 DEF CopiesFresh, PassSoFar
  <1> QED  BY <1>6, <1>7

LEMMA RestGarbageCollect ==
    ASSUME RestInv, TypeOK',
           \/ \E ok \in BOOLEAN : GarbageCollectInUseLabels(ok)
           \/ \E failed \in SUBSET Modules : GarbageCollectWorkerPods(failed)
    PROVE  RestInv'
  <1> SUFFICES ASSUME ~dirty' PROVE CopiesFresh' /\ PassSoFar'
    BY DEF RestInv
  <1>1. ASSUME NEW ok \in BOOLEAN, GarbageCollectInUseLabels(ok)
        PROVE  CopiesFresh' /\ PassSoFar'
    <2>1. /\ UNCHANGED <<spec, status, pod, boot, node, nodeCopy>> /\ ~dirty
          /\ pc = "gcInUse" /\ pc' = "gcPods" /\ inUse' = inUse
          /\ \/ inUse = inUse \ UnusedLabels /\ copy' = [spec |-> spec, status |-> status, inUse |-> inUse]
             \/ UnusedLabels = {} /\ copy' = copy
      BY <1>1 DEF GarbageCollectInUseLabels, hostVars
    <2>2. /\ nodeCopy = node /\ copy.spec = spec /\ copy.status = status /\ copy.inUse = inUse
          /\ PodsSynced /\ AllTolerated /\ EntriesDone
      BY <2>1 DEF RestInv, CopiesFresh, PassSoFar
    <2>3. copy'.spec = spec /\ copy'.status = status /\ copy'.inUse = inUse
      BY <2>1, <2>2
    <2>4. InUsePresent
      <3>1. UnusedLabels \subseteq inUse
        BY <2>2 DEF UnusedLabels
      <3>2. UnusedLabels = {}
        BY <2>1, <3>1
      <3> QED  BY <2>2, <3>2 DEF UnusedLabels, InUsePresent, Present, InSpec, HasStatus
    <2>5. PodsSynced' /\ AllTolerated' /\ EntriesDone' /\ InUsePresent'
      BY <2>1, <2>2, <2>4, ObjectsSame
    <2> QED  BY <2>1, <2>2, <2>3, <2>5 DEF CopiesFresh, PassSoFar
  <1>2. ASSUME NEW failed \in SUBSET Modules, GarbageCollectWorkerPods(failed)
        PROVE  CopiesFresh' /\ PassSoFar'
    <2>1. /\ UNCHANGED <<spec, status, inUse, pod, boot, node, copy, nodeCopy>> /\ ~dirty
          /\ pc = "gcPods" /\ pc' = "nodeLabels" /\ failed = {}
          /\ DeletePods(OrphanPods \ failed) = pod
      BY <1>2 DEF GarbageCollectWorkerPods, nmcVars, hostVars, localVars
    <2>2. /\ nodeCopy = node /\ copy.spec = spec /\ copy.status = status /\ copy.inUse = inUse
          /\ PodsSynced /\ AllTolerated /\ EntriesDone /\ InUsePresent
      BY <2>1 DEF RestInv, CopiesFresh, PassSoFar
    <2>3. PodsCollected
      <3> SUFFICES ASSUME NEW m \in Modules, Exists(m),
                          \A k \in Modules : NameOf[k] = NameOf[m] => ~Present(k)
                   PROVE  pod[m].life = "deleted"
        BY DEF PodsCollected
      <3>1. m \in OrphanPods \ failed
        BY <2>1, <2>2 DEF OrphanPods, PresentNames, Present, InSpec, HasStatus
      <3> QED  BY <2>1, <3>1, DeletedAlready DEF RestInv
    <2>4. PodsSynced' /\ AllTolerated' /\ EntriesDone' /\ InUsePresent' /\ PodsCollected'
      BY <2>1, <2>2, <2>3, ObjectsSame
    <2> QED  BY <2>1, <2>2, <2>4 DEF CopiesFresh, PassSoFar
  <1> QED  BY <1>1, <1>2

LEMMA RestEnds ==
    ASSUME RestInv, TypeOK',
           ReconcileFails \/ \E ok \in BOOLEAN : UpdateLabels(ok) \/ UpdateNodeLabels(ok)
    PROVE  RestInv'
  <1> SUFFICES ASSUME ~dirty' PROVE CopiesFresh' /\ PassSoFar'
    BY DEF RestInv
  <1>1. ~ReconcileFails
    BY DEF ReconcileFails, Finish
  <1>2. ASSUME NEW ok \in BOOLEAN, UpdateLabels(ok)
        PROVE  CopiesFresh' /\ PassSoFar'
    <2>1. /\ UNCHANGED <<spec, status, inUse, pod, boot, node>> /\ ~dirty
          /\ pc = "dropLabels" /\ pc' = "idle"
      BY <1>2 DEF UpdateLabels, Finish, nmcVars, hostVars
    <2>2. PodsSynced /\ ~AllTolerated
      BY <2>1 DEF RestInv, PassSoFar
    <2>3. PodsSynced' /\ ~AllTolerated'
      BY <2>1, <2>2, ObjectsSame
    <2> QED  BY <2>1, <2>3 DEF CopiesFresh, PassSoFar
  <1>3. ASSUME NEW ok \in BOOLEAN, UpdateNodeLabels(ok)
        PROVE  CopiesFresh' /\ PassSoFar'
    <2>1. /\ UNCHANGED <<spec, status, inUse, pod, boot, node>> /\ ~dirty /\ ok
          /\ pc = "nodeLabels" /\ pc' = "idle"
          /\ node = [node EXCEPT !.labels = (@ \ LabelsToRemove) \cup LabelsToAdd]
      BY <1>3 DEF UpdateNodeLabels, Finish, nmcVars, hostVars
    <2>2. /\ nodeCopy = node /\ copy.spec = spec /\ copy.status = status
          /\ PodsSynced /\ AllTolerated /\ EntriesDone /\ InUsePresent /\ PodsCollected
      BY <2>1 DEF RestInv, CopiesFresh, PassSoFar
    <2>3. node.labels = (node.labels \ LabelsToRemove) \cup LabelsToAdd
      BY <2>1 DEF RestInv, TypeOK, NodeObject
    <2>4. NodeLabelsRight
      <3>1. LabelsToRemove = {} /\ LabelsToAdd = {}
        BY <2>2, <2>3 DEF LabelsToRemove, LabelsToAdd
      <3>2. \A m \in node.labels : Present(m)
        BY <2>2, <3>1 DEF LabelsToRemove, Present, InSpec, HasStatus
      <3>3. ASSUME NEW m \in Modules, spec[m] # NoConfig, spec[m] = status[m].config
            PROVE  m \in node.labels
        <4>1. status[m] # NoStatus
          BY <3>3, StatusFacts DEF RestInv, TypeOK
        <4> QED  BY <2>2, <3>1, <3>3, <4>1 DEF LabelsToAdd, InSpec, HasStatus
      <3> QED  BY <3>2, <3>3 DEF NodeLabelsRight
    <2>5. PodsSynced' /\ EntriesDone' /\ InUsePresent' /\ PodsCollected' /\ NodeLabelsRight'
      BY <2>1, <2>2, <2>4, ObjectsSame
    <2> QED  BY <2>1, <2>5 DEF CopiesFresh, PassSoFar
  <1> QED  BY <1>1, <1>2, <1>3

\* Everybody else queues the NMC, or changes nothing the controller looks at.
LEMMA RestOthers ==
    ASSUME RestInv, TypeOK', ModuleController \/ Kubelet \/ Host \/ UNCHANGED vars
    PROVE  RestInv'
  <1>1. CASE dirty'
    BY <1>1 DEF RestInv
  <1>2. CASE UNCHANGED <<spec, status, inUse, pod, boot, node, pc, copy, nodeCopy, doomed, dirty>>
    <2> SUFFICES ASSUME ~dirty' PROVE CopiesFresh' /\ PassSoFar'
      BY DEF RestInv
    <2>1. CopiesFresh /\ PassSoFar
      BY <1>2 DEF RestInv
    <2>2. CopiesFresh'
      BY <1>2, <2>1, ObjectsSame DEF CopiesFresh
    <2>3. PassSoFar'
      BY <1>2, <2>1, ObjectsSame DEF PassSoFar
    <2> QED  BY <2>2, <2>3
  <1>3. CASE ModuleController
    BY <1>1, <1>2, <1>3
    DEF ModuleController, EnableModule, DisableModule, FinalizeRemove, FinalizeRelease, CreateModule,
        DeleteModule, RemoveModuleFromNMC, nmcVars, hostVars, localVars
  <1>4. CASE Kubelet
    BY <1>1, <1>2, <1>4
    DEF Kubelet, PodStarts, PodRestarts, PodFails, PodSucceeds, WorkerActsUnseen, PodEvicted, PodGone,
        PodMoves, nmcVars, localVars
  <1>5. CASE Host
    BY <1>1, <1>5 DEF Host, Reboot, NodeReports, NodeReady, TaintsChange
  <1> QED  BY <1>2, <1>3, <1>4, <1>5 DEF vars

LEMMA RestNext == RestInv /\ [Next]_vars => RestInv'
  <1> SUFFICES ASSUME RestInv, [Next]_vars PROVE RestInv'
    OBVIOUS
  <1>1. TypeOK'
    BY TypeNext DEF RestInv
  <1> QED
    BY <1>1, RestReconcile, RestSyncStatus, RestProcess, RestGarbageCollect, RestEnds, RestOthers
    DEF Next, NMCController

LEMMA RestInit == Init => RestInv
  <1> SUFFICES ASSUME Init PROVE RestInv
    OBVIOUS
  <1>1. /\ \A m \in Modules : spec[m] = NoConfig /\ status[m] = NoStatus /\ pod[m] = NoPod
        /\ inUse = {} /\ node.labels = {} /\ pc = "idle" /\ TypeOK
    BY TypeInit DEF Init
  <1>2. \A m \in Modules : ~Exists(m)
    BY <1>1 DEF Exists, NoPod
  <1>3. PodsSynced /\ EntriesDone /\ InUsePresent /\ PodsCollected /\ NodeLabelsRight
    BY <1>1, <1>2 DEF PodsSynced, PodsToDelete, EntriesDone, InUsePresent, PodsCollected, NodeLabelsRight
  <1> QED  BY <1>1, <1>3 DEF RestInv, CopiesFresh, PassSoFar

(***************************************************************************)
(* No wake-up is lost, for any Modules, configs, reboots and failing       *)
(* calls: a controller that rests on a node that every Module tolerates    *)
(* has a worker Pod for whatever is not as the spec wants it.              *)
(***************************************************************************)
THEOREM RestsWhenDone == Spec => []RestsOnlyWhenDone
  <1>1. RestInv => RestsOnlyWhenDone
    BY DEF RestInv, PassSoFar, EntriesDone, RestsOnlyWhenDone, Quiescent
  <1> QED  BY <1>1, RestInit, RestNext, PTL DEF Spec

(***************************************************************************)
(* The ready labels of the Node and the in-use labels of the NMC are right *)
(* at rest, however the Module controller's writes interleave with their   *)
(* collection.                                                             *)
(***************************************************************************)
THEOREM LabelsRightAtRest == Spec => []LabelsRestRight
  <1>1. RestInv => LabelsRestRight
    BY DEF RestInv, PassSoFar, InUsePresent, NodeLabelsRight, Present, LabelsRestRight, Quiescent
  <1> QED  BY <1>1, RestInit, RestNext, PTL DEF Spec

(***************************************************************************)
(* No worker Pod that has started is left without an entry, and one that   *)
(* has not only next to an unschedulable Module or a namesake.             *)
(***************************************************************************)
THEOREM NoOrphanPods == Spec => []OrphanPodsCollected
  <1>1. RestInv => OrphanPodsCollected
    <2> SUFFICES ASSUME RestInv, Quiescent, NEW m \in Modules, Exists(m), pod[m].life # "deleted",
                        spec[m] = NoConfig, status[m] = NoStatus
                 PROVE  /\ pod[m].phase = "Pending"
                        /\ \/ ~AllTolerated
                           \/ \E k \in Modules \ {m} : NameOf[k] = NameOf[m] /\ Present(k)
      BY DEF OrphanPodsCollected, Present
    <2>1. m \notin PodsToDelete
      BY DEF RestInv, PassSoFar, PodsSynced, Quiescent
    <2>2. pod[m].phase = "Pending"
      <3>1. Orphan(m)
        BY DEF Orphan, InSpec, HasStatus, currentNMC
      <3>2. pod[m].phase \in {"Pending", "Running", "Succeeded", "Failed"}
        BY DEF RestInv, TypeOK, PodRecord, NoPod
      <3> QED  BY <2>1, <3>1, <3>2 DEF PodsToDelete
    <2>3. AllTolerated => \E k \in Modules \ {m} : NameOf[k] = NameOf[m] /\ Present(k)
      <3> SUFFICES ASSUME AllTolerated PROVE \E k \in Modules \ {m} : NameOf[k] = NameOf[m] /\ Present(k)
        OBVIOUS
      <3>1. PodsCollected
        BY DEF RestInv, PassSoFar, Quiescent
      <3>2. PICK k \in Modules : NameOf[k] = NameOf[m] /\ Present(k)
        BY <3>1 DEF PodsCollected
      <3>3. k # m
        BY <3>2 DEF Present
      <3> QED  BY <3>2, <3>3
    <2> QED  BY <2>2, <2>3
  <1> QED  BY <1>1, RestInit, RestNext, PTL DEF Spec

==============================================================================
