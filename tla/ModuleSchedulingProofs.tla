----------------------- MODULE ModuleSchedulingProofs -----------------------
(***************************************************************************)
(* Proofs about ModuleScheduling for any Modules, nodes and namespaces,    *)
(* with caches that lag as they like: the types, the label that protects a *)
(* namespace while a Module lives there and goes with the last one, and    *)
(* that no entry of an NMC outlives its Module.                            *)
(***************************************************************************)
EXTENDS ModuleScheduling, FiniteSetTheorems, TLAPS

(* A Reconcile works on a Module.                                          *)
TaskModule == task.step # "idle" => task.m \in Modules

TypeInv == TypeOK /\ TaskModule

TaskObject == [step: Steps, m: Modules \cup {None}, mod: ModuleObject, stale: BOOLEAN,
               matching: 0..Cardinality(Nodes),
               todo: [Nodes -> {"nothing", "add", "delete"}],
               targeted: [Nodes -> Images \cup {None}], failed: BOOLEAN]

CacheObject == [module: [Modules -> ModuleObject], nmc: [Nodes -> NMCObject],
                label: SUBSET Namespaces]

MICObject == [made: BOOLEAN, spec: SUBSET Images, exists: SUBSET Images]

(* A set of nodes has at most as many as there are.                        *)
LEMMA NodeCount == \A S \in SUBSET Nodes : Cardinality(S) \in 0..Cardinality(Nodes)
  <1>1. IsFiniteSet(Nodes)
    BY SchedulingAssumption
  <1>2. TAKE S \in SUBSET Nodes
  <1>3. IsFiniteSet(S) /\ Cardinality(S) <= Cardinality(Nodes)
    BY <1>1, FS_Subset
  <1>4. Cardinality(S) \in Nat /\ Cardinality(Nodes) \in Nat
    BY <1>1, <1>3, FS_CardinalityType
  <1> QED BY <1>3, <1>4

(* The objects a Module and a Reconcile start from.                        *)
LEMMA StartTypes == Absent \in ModuleObject /\ Created \in ModuleObject /\ Idle \in TaskObject
  <1>1. 0 \in 0..Cardinality(Nodes)
    BY NodeCount, FS_EmptySet
  <1>2. NoStatus \in [matching: 0..Cardinality(Nodes), desired: 0..Cardinality(Nodes),
                      available: 0..Cardinality(Nodes)]
    BY <1>1 DEF NoStatus
  <1>3. Absent \in ModuleObject
    BY <1>2, SchedulingAssumption DEF Absent, ModuleObject, Revs
  <1>4. Created \in ModuleObject
    BY <1>3 DEF Created, ModuleObject
  <1> QED BY <1>1, <1>3, <1>4 DEF Idle, TaskObject, Steps

(* A patched NMC is an NMC.                                                *)
LEMMA PatchedType ==
  ASSUME NEW cur \in NMCObject, NEW copy \in NMCObject, NEW want \in NMCObject
  PROVE  Patched(cur, copy, want) \in NMCObject
  BY DEF Patched, NMCObject

(* Writing an NMC keeps the NMCs, their copies and their events, and does  *)
(* not touch the copies of anything else.                                  *)
LEMMA WriteNMCType ==
  ASSUME TypeOK, NEW n \in Nodes, NEW new \in NMCObject, WriteNMC(n, new)
  PROVE  /\ nmc' = [nmc EXCEPT ![n] = new] /\ nmc' \in [Nodes -> NMCObject]
         /\ cached' \in CacheObject
         /\ cached'.module = cached.module /\ cached'.label = cached.label
         /\ nmcEvents' \in [Nodes -> SUBSET Modules]
         /\ queue \subseteq queue' /\ queue' \subseteq Modules
  <1>1. nmc' = [nmc EXCEPT ![n] = new] /\ nmc' \in [Nodes -> NMCObject]
    BY DEF WriteNMC, TypeOK
  <1>2. ListModulesForNMC(nmc[n], new) \in SUBSET Modules
    BY DEF ListModulesForNMC, TypeOK, NMCObject
  <1>3. cached \in CacheObject
    BY DEF TypeOK, CacheObject
  <1>4. [cached.nmc EXCEPT ![n] = new] \in [Nodes -> NMCObject]
    BY <1>3 DEF CacheObject
  <1>5. cached' = cached \/ cached' = [cached EXCEPT !.nmc[n] = new]
    BY DEF WriteNMC
  <1>6. /\ cached' \in CacheObject
        /\ cached'.module = cached.module /\ cached'.label = cached.label
    BY <1>3, <1>4, <1>5 DEF CacheObject
  <1> QED BY <1>1, <1>2, <1>6 DEF WriteNMC, TypeOK

(* What removing and enabling a Module write.                              *)
LEMMA EntryWriteTypes ==
  ASSUME TypeOK, NEW n \in Nodes, NEW m \in Modules, NEW image \in Images \cup {None}
  PROVE  /\ cached.nmc[n] \in NMCObject
         /\ [cached.nmc[n] EXCEPT !.spec[m] = None, !.configured = @ \ {m}] \in NMCObject
         /\ [cached.nmc[n] EXCEPT !.spec[m] = image, !.configured = @ \cup {m},
                                  !.inUse = @ \cup {m}] \in NMCObject
  <1>1. cached.nmc[n] \in NMCObject
    BY DEF TypeOK
  <1>2. \A v \in Images \cup {None} :
            [cached.nmc[n].spec EXCEPT ![m] = v] \in [Modules -> Images \cup {None}]
    BY <1>1 DEF NMCObject
  <1> QED BY <1>1, <1>2 DEF NMCObject

(* A patch of an NMC.                                                      *)
LEMMA PatchNMCType ==
  ASSUME TypeOK, NEW n \in Nodes, NEW m \in Modules, NEW want \in NMCObject, NEW image,
         PatchNMC(n, m, want, image)
  PROVE  /\ nmc' = [nmc EXCEPT ![n] = Patched(nmc[n], cached.nmc[n], want)]
         /\ nmc' \in [Nodes -> NMCObject]
         /\ cached' \in CacheObject
         /\ cached'.module = cached.module /\ cached'.label = cached.label
         /\ nmcEvents' \in [Nodes -> SUBSET Modules]
         /\ queue \subseteq queue' /\ queue' \subseteq Modules
         /\ misjudged' \subseteq Nodes \X Modules
  <1>1. nmc[n] \in NMCObject /\ cached.nmc[n] \in NMCObject
    BY DEF TypeOK
  <1>2. Patched(nmc[n], cached.nmc[n], want) \in NMCObject
    BY <1>1, PatchedType
  <1>3. WriteNMC(n, Patched(nmc[n], cached.nmc[n], want))
    BY DEF PatchNMC
  <1>4. misjudged' \subseteq Nodes \X Modules
    BY DEF PatchNMC, Judge, TypeOK
  <1> QED BY <1>2, <1>3, <1>4, WriteNMCType

(* Ending a Reconcile.                                                     *)
LEMMA EndType ==
  ASSUME TypeInv, task.step # "idle", NEW f, End(f)
  PROVE  task' \in TaskObject /\ task'.step = "idle" /\ queue' \subseteq Modules
  BY StartTypes DEF TypeInv, TypeOK, TaskModule, End, Idle

(* What writing a Module does to the Modules, to their copies and to the   *)
(* events on their way.                                                    *)
LEMMA WriteModuleFacts ==
  ASSUME TypeOK, NEW m \in Modules, NEW new \in ModuleObject,
         NEW waiting \in SUBSET Modules, WriteModule(m, new, waiting)
  PROVE  /\ module' = [module EXCEPT ![m] = new] /\ module' \in [Modules -> ModuleObject]
         /\ cached' \in CacheObject
         /\ cached'.nmc = cached.nmc /\ cached'.label = cached.label
         /\ \A k \in Modules \ {m} : /\ cached'.module[k] = cached.module[k]
                                     /\ k \in moduleEvents' <=> k \in moduleEvents
         /\ \/ new = module[m] /\ cached' = cached /\ moduleEvents' = moduleEvents
            \/ m \in moduleEvents' /\ cached' = cached
            \/ m \notin moduleEvents' /\ m \in queue' /\ cached'.module[m] = new
         /\ moduleEvents' \subseteq Modules
         /\ waiting \subseteq queue' /\ queue' \subseteq Modules
  <1>1. cached \in CacheObject
    BY DEF TypeOK, CacheObject
  <1>2. CASE cached' = cached /\ queue' = waiting
    BY <1>1, <1>2 DEF TypeOK, WriteModule
  <1>3. CASE /\ cached' = [cached EXCEPT !.module[m] = new]
             /\ moduleEvents' = moduleEvents \ {m}
             /\ queue' = waiting \cup {m}
    <2>1. [cached.module EXCEPT ![m] = new] \in [Modules -> ModuleObject]
      BY <1>1 DEF CacheObject
    <2>2. cached' = [cached EXCEPT !.module = [cached.module EXCEPT ![m] = new]]
      BY <1>1, <1>3 DEF CacheObject
    <2>3. cached' \in CacheObject
      BY <1>1, <2>1, <2>2 DEF CacheObject
    <2>4. /\ cached'.module = [cached.module EXCEPT ![m] = new]
          /\ cached'.nmc = cached.nmc /\ cached'.label = cached.label
      BY <1>1, <2>2 DEF CacheObject
    <2>5. \A k \in Modules \ {m} : cached'.module[k] = cached.module[k]
      BY <1>1, <2>4 DEF CacheObject
    <2>6. cached'.module[m] = new
      BY <1>1, <2>4 DEF CacheObject
    <2>7. module' = [module EXCEPT ![m] = new]
      BY DEF WriteModule
    <2> QED BY <1>3, <2>3, <2>4, <2>5, <2>6, <2>7 DEF TypeOK
  <1> QED BY <1>2, <1>3 DEF WriteModule

LEMMA WriteNodeType ==
  ASSUME TypeOK, NEW n \in Nodes, NEW new \in NodeObject, WriteNode(n, new)
  PROVE  /\ node' \in [Nodes -> NodeObject]
         /\ queue \subseteq queue' /\ queue' \subseteq Modules
  BY DEF TypeOK, WriteNode, FindModulesForNMCNodeChange

(* Writing the labels.                                                     *)
LEMMA WriteLabelType ==
  ASSUME TypeOK, NEW new \in SUBSET Namespaces, WriteLabel(new)
  PROVE  /\ label' = new /\ cached' \in CacheObject
         /\ cached'.module = cached.module /\ cached'.nmc = cached.nmc
  <1>1. cached \in CacheObject
    BY DEF TypeOK, CacheObject
  <1> QED BY <1>1 DEF WriteLabel, CacheObject

(* Counting disturbances.                                                  *)
LEMMA CountType ==
  ASSUME TypeOK, Disturbance \/ CountDelay
  PROVE  disturbances' \in 0..MaxDisturbances
  BY SchedulingAssumption DEF TypeOK, Disturbance, CountDelay

(* An image that a mapping yields is one of the images.                    *)
LEMMA MldType ==
  ASSUME TypeOK, NEW n \in Nodes, NEW rev \in Revs
  PROVE  Mld(n, rev) \in Images \cup {None}
  BY DEF TypeOK, NodeObject, Mld, Images

(* A Module of a write and of a Reconcile that is not idle.                *)
LEMMA Working_m ==
  ASSUME TypeInv, task.step # "idle"
  PROVE  task.m \in Modules /\ task.mod \in ModuleObject /\ NamespaceOf[task.m] \in Namespaces
  BY SchedulingAssumption DEF TypeInv, TypeOK, TaskModule

(* What the Reconcile writes to an NMC in its two loops.                   *)
LEMMA NodeStepFacts ==
  ASSUME TypeInv, NEW n \in Nodes, FinalizeNode(n) \/ ScheduleNode(n)
  PROVE  /\ task.step \in {"finalizeModule", "schedule"}
         /\ task.m \in Modules /\ task' \in TaskObject
         /\ task' = [task EXCEPT !.todo = task'.todo, !.failed = task'.failed]
         /\ UNCHANGED <<module, node, mic, label, moduleEvents, unset, leaked>>
         /\ CountDelay
         /\ \/ UNCHANGED <<nmc, cached, nmcEvents, queue, misjudged>>
            \/ /\ task.step = "schedule"
               /\ task.targeted[n] \in Images \cup {None}
               /\ enableModuleOnNode(n, task.m, task.targeted[n])
            \/ removeModuleFromNMC(n, task.m)
  <1>0. task \in TaskObject
    BY DEF TypeInv, TypeOK, TaskObject
  <1>1. task.step \in {"finalizeModule", "schedule"}
    BY DEF FinalizeNode, ScheduleNode, Working
  <1>2. task.m \in Modules
    BY <1>1, Working_m
  <1>3. task.targeted[n] \in Images \cup {None}
    BY <1>0 DEF TaskObject
  <1>4. PICK f \in BOOLEAN : task' = [task EXCEPT !.todo[n] = "nothing", !.failed = f]
    <2>1. CASE FinalizeNode(n)
      BY <1>0, <2>1 DEF FinalizeNode, TaskObject
    <2>2. CASE ScheduleNode(n)
      BY <1>0, <2>2 DEF ScheduleNode, TaskObject, CreateConflict, ImageMissing
    <2> QED BY <2>1, <2>2
  <1>5. [task.todo EXCEPT ![n] = "nothing"] \in [Nodes -> {"nothing", "add", "delete"}]
    BY <1>0 DEF TaskObject
  <1>6. task' \in TaskObject /\ task' = [task EXCEPT !.todo = task'.todo, !.failed = task'.failed]
    BY <1>0, <1>4, <1>5 DEF TaskObject
  <1>7. CASE FinalizeNode(n)
    BY <1>1, <1>2, <1>3, <1>6, <1>7 DEF FinalizeNode
  <1>8. CASE ScheduleNode(n)
    BY <1>1, <1>2, <1>3, <1>6, <1>8 DEF ScheduleNode, disableModuleOnNode, Working
  <1> QED BY <1>7, <1>8

LEMMA NodeStepType ==
  ASSUME TypeInv, NEW n \in Nodes, FinalizeNode(n) \/ ScheduleNode(n)
  PROVE  /\ nmc' \in [Nodes -> NMCObject]
         /\ cached' \in CacheObject
         /\ cached'.module = cached.module /\ cached'.label = cached.label
         /\ nmcEvents' \in [Nodes -> SUBSET Modules]
         /\ queue \subseteq queue' /\ queue' \subseteq Modules
         /\ misjudged' \subseteq Nodes \X Modules
  <1>0. TypeOK
    BY DEF TypeInv
  <1>1. CASE UNCHANGED <<nmc, cached, nmcEvents, queue, misjudged>>
    BY <1>0, <1>1 DEF TypeOK, CacheObject
  <1>2. CASE \E want \in NMCObject, image \in Images \cup {None} : PatchNMC(n, task.m, want, image)
    BY <1>0, <1>2, NodeStepFacts, PatchNMCType
  <1>3. task.m \in Modules
    BY NodeStepFacts
  <1>4. CASE /\ task.targeted[n] \in Images \cup {None}
             /\ enableModuleOnNode(n, task.m, task.targeted[n])
    BY <1>0, <1>2, <1>3, <1>4, EntryWriteTypes DEF enableModuleOnNode
  <1>5. CASE removeModuleFromNMC(n, task.m)
    <2>1. None \in Images \cup {None}
      OBVIOUS
    <2> QED BY <1>0, <1>2, <1>3, <1>5, <2>1, EntryWriteTypes DEF removeModuleFromNMC
  <1> QED BY <1>1, <1>4, <1>5, NodeStepFacts

(* The last step of a finalization.                                        *)
LEMMA ReleaseFacts ==
  ASSUME TypeInv, finalizeModule
  PROVE  /\ task.m \in Modules /\ task' = Idle
         /\ \/ UNCHANGED <<module, cached, moduleEvents, mic, misjudged>> /\ queue \subseteq queue'
               /\ queue' \subseteq Modules
            \/ /\ ~task.stale
               /\ WriteModule(task.m, Absent, queue)
               /\ mic' = [mic EXCEPT ![task.m] = NoMIC]
               /\ misjudged' = misjudged
                      \cup ({n \in Nodes : task.m \in nmc[n].inUse \ cached.nmc[n].inUse} \X {task.m})
               /\ \A n \in Nodes : task.m \notin cached.nmc[n].inUse
         /\ UNCHANGED <<node, nmc, label, nmcEvents, unset, leaked>>
  <1> DEFINE inUse == \E n \in Nodes : task.m \in cached.nmc[n].inUse
             release == ~task.failed /\ ~inUse /\ ~task.stale
             waiting == IF task.failed \/ (~inUse /\ task.stale) THEN queue \cup {task.m} ELSE queue
  <1>1. task.m \in Modules
    BY Working_m DEF finalizeModule, Working
  <1>2. /\ task' = Idle
        /\ WriteModule(task.m, IF release THEN Absent ELSE module[task.m], waiting)
        /\ mic' = IF release THEN [mic EXCEPT ![task.m] = NoMIC] ELSE mic
        /\ misjudged' = IF release
                        THEN misjudged \cup ({n \in Nodes : task.m \in nmc[n].inUse \ cached.nmc[n].inUse}
                                                 \X {task.m})
                        ELSE misjudged
        /\ UNCHANGED <<node, nmc, label, nmcEvents, unset, leaked>>
    BY DEF finalizeModule, Release
  <1>3. waiting \in SUBSET Modules /\ queue \subseteq waiting
    BY <1>1 DEF TypeInv, TypeOK
  <1>4. CASE release
    BY <1>1, <1>2, <1>4
  <1>5. CASE ~release
    <2>1. WriteModule(task.m, module[task.m], waiting)
      BY <1>2, <1>5
    <2> HIDE DEF waiting, release
    <2>2. module' = module
      BY <1>1, <2>1 DEF WriteModule, TypeInv, TypeOK
    <2>3. UNCHANGED <<cached, moduleEvents>> /\ queue' = waiting
      BY <2>1 DEF WriteModule
    <2> QED BY <1>1, <1>2, <1>3, <1>5, <2>2, <2>3
  <1> QED BY <1>4, <1>5

(* Setting the finalizer.                                                  *)
LEMMA FinalizerFacts ==
  ASSUME TypeInv, setFinalizerAndStatus
  PROVE  /\ task.m \in Modules /\ task.step = "setFinalizer"
         /\ [task.mod EXCEPT !.finalizer = TRUE] \in ModuleObject
         /\ \/ UNCHANGED <<module, cached, moduleEvents>> /\ End(TRUE)
            \/ /\ task' = Idle \/ task' = [task EXCEPT !.step = "handleMIC",
                                                       !.mod = [task.mod EXCEPT !.finalizer = TRUE]]
               /\ \/ UNCHANGED <<module, cached, moduleEvents, queue>> /\ task.mod.finalizer
                  \/ /\ ~task.stale
                     /\ WriteModule(task.m, [task.mod EXCEPT !.finalizer = TRUE], queue)
         /\ UNCHANGED <<node, nmc, mic, label, nmcEvents, misjudged, unset, leaked>>
  <1>1. task.m \in Modules /\ task.step = "setFinalizer" /\ task.mod \in ModuleObject
    BY Working_m DEF setFinalizerAndStatus, Working
  <1>2. [task.mod EXCEPT !.finalizer = TRUE] \in ModuleObject
    BY <1>1 DEF ModuleObject
  <1>3. CASE task.mod.finalizer
    <2>1. WriteModule(task.m, module[task.m], queue)
      BY <1>3 DEF setFinalizerAndStatus
    <2>2. UNCHANGED <<module, cached, moduleEvents, queue>>
      BY <1>1, <2>1 DEF WriteModule, TypeInv, TypeOK
    <2> QED BY <1>1, <1>2, <1>3, <2>2 DEF setFinalizerAndStatus, history
  <1>4. CASE ~task.mod.finalizer
    BY <1>1, <1>2, <1>4 DEF setFinalizerAndStatus, history
  <1> QED BY <1>3, <1>4

(* The status patch.                                                       *)
LEMMA StatusFacts ==
  ASSUME TypeInv, updateModuleStatus
  PROVE  /\ task.m \in Modules /\ task' = Idle
         /\ \E new \in ModuleObject, waiting \in SUBSET Modules :
               /\ queue \subseteq waiting
               /\ WriteModule(task.m, new, waiting)
               /\ new.phase = module[task.m].phase /\ new.finalizer = module[task.m].finalizer
         /\ UNCHANGED <<node, nmc, mic, label, nmcEvents, misjudged, unset, leaked>>
  <1> DEFINE m == task.m
             nmcs == {n \in Nodes : m \in cached.nmc[n].configured}
             loaded == {n \in nmcs : /\ cached.nmc[n].spec[m] # None
                                     /\ cached.nmc[n].status[m] = cached.nmc[n].spec[m]}
             status == [matching |-> task.matching,
                        desired |-> Cardinality(nmcs), available |-> Cardinality(loaded)]
             found == module[m].phase # "none"
             merged == [f \in {"matching", "desired", "available"} |->
                           IF status[f] = task.mod.status[f] THEN module[m].status[f] ELSE status[f]]
             new == [module[m] EXCEPT !.status = merged]
             written == IF found THEN new ELSE module[m]
             waiting == IF task.failed \/ ~found THEN queue \cup {m} ELSE queue
  <1>0. task \in TaskObject
    BY DEF TypeInv, TypeOK, TaskObject
  <1>1. m \in Modules /\ module[m] \in ModuleObject
    BY Working_m DEF updateModuleStatus, Working, TypeInv, TypeOK
  <1>2. /\ task' = Idle /\ WriteModule(m, written, waiting)
        /\ UNCHANGED <<node, nmc, mic, label, nmcEvents, misjudged, unset, leaked>>
    BY DEF updateModuleStatus, history
  <1>3. nmcs \in SUBSET Nodes /\ loaded \in SUBSET Nodes
    OBVIOUS
  <1>4. Cardinality(nmcs) \in 0..Cardinality(Nodes) /\ Cardinality(loaded) \in 0..Cardinality(Nodes)
    BY <1>3, NodeCount
  <1>5. task.matching \in 0..Cardinality(Nodes)
    BY <1>0 DEF TaskObject
  <1> HIDE DEF nmcs, loaded
  <1>6. \A f \in {"matching", "desired", "available"} :
            status[f] \in 0..Cardinality(Nodes) /\ module[m].status[f] \in 0..Cardinality(Nodes)
    BY <1>1, <1>4, <1>5 DEF ModuleObject
  <1> HIDE DEF status
  <1>7. merged \in [{"matching", "desired", "available"} -> 0..Cardinality(Nodes)]
    BY <1>6
  <1>8. merged \in [matching: 0..Cardinality(Nodes), desired: 0..Cardinality(Nodes),
                    available: 0..Cardinality(Nodes)]
    BY <1>7
  <1> HIDE DEF merged
  <1>9. /\ new \in ModuleObject /\ new.phase = module[m].phase
        /\ new.finalizer = module[m].finalizer
    BY <1>1, <1>8 DEF ModuleObject
  <1> HIDE DEF new
  <1>10. /\ written \in ModuleObject /\ written.phase = module[m].phase
         /\ written.finalizer = module[m].finalizer
    BY <1>1, <1>9
  <1>11. waiting \in SUBSET Modules /\ queue \subseteq waiting
    BY <1>1 DEF TypeInv, TypeOK
  <1> HIDE DEF written, waiting
  <1> QED BY <1>1, <1>2, <1>10, <1>11

(* What building the MIC and the list of nodes yields.                     *)
LEMMA MICFacts ==
  ASSUME TypeInv, handleMIC
  PROVE  /\ task.m \in Modules /\ task.step = "handleMIC"
         /\ task' \in TaskObject /\ queue \subseteq queue' /\ queue' \subseteq Modules
         /\ mic' \in [Modules -> MICObject]
         /\ task' = Idle \/ (task'.step = "schedule" /\ task'.m = task.m)
         /\ UNCHANGED <<module, node, nmc, label, cached, moduleEvents, nmcEvents, disturbances,
                        misjudged, unset, leaked>>
  <1>0. TypeOK /\ task \in TaskObject
    BY DEF TypeInv, TypeOK, TaskObject
  <1> DEFINE m == task.m
             rev == task.mod.rev
             images == {Mld(n, rev) : n \in TargetedNodes(m)} \ {None}
             current == {n \in Nodes : m \in cached.nmc[n].configured}
             targeted == [n \in Nodes |-> IF n \in TargetedNodes(m) THEN Mld(n, rev) ELSE None]
             todo == [n \in Nodes |->
                         IF n \in TargetedNodes(m)
                         THEN prepareNodeSchedulingData(n, m, Mld(n, rev), current)
                         ELSE IF n \in current THEN "delete" ELSE "nothing"]
  <1>1. m \in Modules /\ task.step = "handleMIC" /\ rev \in Revs
    BY Working_m DEF handleMIC, Working, ModuleObject
  <1>2. \A n \in Nodes : Mld(n, rev) \in Images \cup {None}
    BY <1>0, <1>1, MldType
  <1>3. images \in SUBSET Images /\ TargetedNodes(m) \in SUBSET Nodes
    BY <1>2 DEF TargetedNodes
  <1>4. mic' \in [Modules -> MICObject]
    <2>1. mic' = [mic EXCEPT ![m].made = TRUE, ![m].spec = images]
      BY DEF handleMIC
    <2>2. mic \in [Modules -> MICObject]
      BY <1>0 DEF TypeOK, MICObject
    <2> HIDE DEF images
    <2> QED BY <1>1, <1>3, <2>1, <2>2 DEF MICObject
  <1>5. /\ task' \in TaskObject /\ queue \subseteq queue' /\ queue' \subseteq Modules
        /\ task' = Idle \/ (task'.step = "schedule" /\ task'.m = task.m)
    <2>1. CASE End(TRUE)
      BY <1>0, <1>1, <2>1, EndType DEF End, TypeOK
    <2>2. CASE ~End(TRUE)
      <3>1. Cardinality(TargetedNodes(m)) \in 0..Cardinality(Nodes)
        BY <1>3, NodeCount
      <3>2. todo \in [Nodes -> {"nothing", "add", "delete"}]
        BY DEF prepareNodeSchedulingData
      <3>3. targeted \in [Nodes -> Images \cup {None}]
        BY <1>2
      <3>4. /\ task' = [task EXCEPT !.step = "schedule", !.targeted = targeted,
                                   !.matching = Cardinality(TargetedNodes(m)), !.todo = todo]
            /\ queue' = queue \/ queue' = queue \cup {m}
        BY <2>2 DEF handleMIC
      <3> HIDE DEF todo, targeted
      <3> QED BY <1>0, <1>1, <3>1, <3>2, <3>3, <3>4 DEF TaskObject, Steps, TypeOK
    <2> QED BY <2>1, <2>2
  <1> QED BY <1>1, <1>4, <1>5 DEF handleMIC, events, history

(* The Reconcile keeps the types...                                        *)
LEMMA ReconcileType ==
  ASSUME TypeInv, ModuleController
  PROVE  TypeInv'
  <1> USE SchedulingAssumption
  <1>0. TypeOK /\ task \in TaskObject /\ cached \in CacheObject
    BY DEF TypeInv, TypeOK, TaskObject, CacheObject
  <1>1. ASSUME NEW m \in Modules, StartReconcile(m)
        PROVE  TypeInv'
    <2>1. cached.module[m] \in ModuleObject
      BY <1>0 DEF CacheObject
    <2>2. task' \in TaskObject /\ (task'.step # "idle" => task'.m \in Modules)
      <3> DEFINE old == m \in moduleEvents
      <3>1. old \in BOOLEAN
        OBVIOUS
      <3>2. PICK step \in Steps :
                \/ task' = Idle
                \/ task' = [Idle EXCEPT !.m = m, !.mod = cached.module[m], !.stale = old,
                                       !.step = step]
        BY <1>1 DEF StartReconcile, Steps
      <3> HIDE DEF old
      <3>3. CASE task' = Idle
        BY <3>3, StartTypes DEF Idle
      <3>4. CASE task' = [Idle EXCEPT !.m = m, !.mod = cached.module[m], !.stale = old,
                                      !.step = step]
        BY <2>1, <3>1, <3>4, StartTypes DEF TaskObject, Idle
      <3> QED BY <3>2, <3>3, <3>4
    <2> QED BY <1>0, <1>1, <2>2 DEF StartReconcile, objects, events, history, TypeInv, TypeOK,
                                    TaskModule, TaskObject
  <1>2. ASSUME tryRemovingLabel
        PROVE  TypeInv'
    <2>1. task.m \in Modules /\ NamespaceOf[task.m] \in Namespaces
      BY <1>2, Working_m DEF tryRemovingLabel, Working
    <2>2. task' \in TaskObject /\ task'.m \in Modules
      BY <1>0, <1>2, <2>1 DEF tryRemovingLabel, TaskObject, Steps
    <2>3. PICK new \in SUBSET Namespaces : WriteLabel(new)
      BY <1>0, <1>2 DEF tryRemovingLabel, TypeOK
    <2>4. label' \subseteq Namespaces /\ cached' \in CacheObject
      BY <1>0, <2>3, WriteLabelType
    <2>5. leaked' \subseteq Namespaces
      BY <1>0, <1>2, <2>1 DEF tryRemovingLabel, TypeOK
    <2>6. disturbances' \in 0..MaxDisturbances
      BY <1>0, <1>2, CountType DEF tryRemovingLabel
    <2> QED BY <1>0, <1>2, <2>2, <2>4, <2>5, <2>6
            DEF tryRemovingLabel, events, TypeInv, TypeOK, TaskModule, TaskObject, CacheObject
  <1>3. ASSUME NEW n \in Nodes, FinalizeNode(n) \/ ScheduleNode(n)
        PROVE  TypeInv'
    <2>1. disturbances' \in 0..MaxDisturbances
      BY <1>0, <1>3, NodeStepFacts, CountType
    <2>2. /\ task' \in TaskObject /\ task'.m \in Modules
          /\ UNCHANGED <<module, node, mic, label, moduleEvents, unset, leaked>>
      BY <1>0, <1>3, NodeStepFacts DEF TaskObject
    <2>3. /\ nmc' \in [Nodes -> NMCObject] /\ cached' \in CacheObject
          /\ nmcEvents' \in [Nodes -> SUBSET Modules] /\ queue' \subseteq Modules
          /\ misjudged' \subseteq Nodes \X Modules
      BY <1>3, NodeStepType
    <2> QED BY <1>0, <2>1, <2>2, <2>3 DEF TypeInv, TypeOK, TaskModule, TaskObject, CacheObject
  <1>4. ASSUME finalizeModule
        PROVE  TypeInv'
    <2>1. disturbances' \in 0..MaxDisturbances
      BY <1>0, <1>4, CountType DEF finalizeModule
    <2>2. /\ task.m \in Modules /\ task' = Idle
          /\ UNCHANGED <<node, nmc, label, nmcEvents, unset, leaked>>
      BY <1>4, ReleaseFacts
    <2>3. CASE UNCHANGED <<module, cached, moduleEvents, mic, misjudged>> /\ queue' \subseteq Modules
      BY <1>0, <2>1, <2>2, <2>3, StartTypes DEF TypeInv, TypeOK, TaskModule, TaskObject, Idle
    <2>4. CASE /\ WriteModule(task.m, Absent, queue)
               /\ mic' = [mic EXCEPT ![task.m] = NoMIC]
               /\ misjudged' = misjudged
                   \cup ({n \in Nodes : task.m \in nmc[n].inUse \ cached.nmc[n].inUse} \X {task.m})
      <3>1. queue \in SUBSET Modules
        BY <1>0 DEF TypeOK
      <3>2. /\ module' \in [Modules -> ModuleObject] /\ cached' \in CacheObject
            /\ moduleEvents' \subseteq Modules /\ queue' \subseteq Modules
        BY <1>0, <2>2, <2>4, <3>1, StartTypes, WriteModuleFacts
      <3>3. mic' \in [Modules -> MICObject]
        BY <1>0, <2>2, <2>4 DEF TypeOK, MICObject, NoMIC
      <3>4. misjudged' \subseteq Nodes \X Modules
        BY <1>0, <2>2, <2>4 DEF TypeOK
      <3> QED BY <1>0, <2>1, <2>2, <3>2, <3>3, <3>4, StartTypes
              DEF TypeInv, TypeOK, TaskModule, TaskObject, CacheObject, MICObject, Idle
    <2> QED BY <1>4, <2>3, <2>4, ReleaseFacts
  <1>5. ASSUME setLabel
        PROVE  TypeInv'
    <2>1. task.m \in Modules /\ NamespaceOf[task.m] \in Namespaces
      BY <1>5, Working_m DEF setLabel, Working
    <2>2. task' \in TaskObject /\ task'.m \in Modules
      BY <1>0, <1>5, <2>1 DEF setLabel, TaskObject, Steps
    <2>3. UNCHANGED <<label, cached>> \/ \E new \in SUBSET Namespaces : WriteLabel(new)
      BY <1>0, <1>5, <2>1 DEF setLabel, TypeOK
    <2>4. label' \subseteq Namespaces /\ cached' \in CacheObject
      BY <1>0, <2>3, WriteLabelType DEF TypeOK
    <2>5. unset' \subseteq Namespaces
      BY <1>0, <1>5, <2>1 DEF setLabel, TypeOK
    <2>6. disturbances' \in 0..MaxDisturbances
      BY <1>0, <1>5, CountType DEF setLabel
    <2> QED BY <1>0, <1>5, <2>2, <2>4, <2>5, <2>6
            DEF setLabel, events, TypeInv, TypeOK, TaskModule, TaskObject, CacheObject
  <1>6. ASSUME setFinalizerAndStatus
        PROVE  TypeInv'
    <2> DEFINE patched == [task.mod EXCEPT !.finalizer = TRUE]
    <2>1. disturbances' \in 0..MaxDisturbances
      BY <1>0, <1>6, CountType DEF setFinalizerAndStatus
    <2>2. /\ task.m \in Modules /\ patched \in ModuleObject /\ task.step = "setFinalizer"
          /\ UNCHANGED <<node, nmc, mic, label, nmcEvents, misjudged, unset, leaked>>
      BY <1>6, FinalizerFacts
    <2>3. task' \in TaskObject /\ (task'.step # "idle" => task'.m \in Modules)
      <3>1. task' = Idle \/ task' = [task EXCEPT !.step = "handleMIC", !.mod = patched]
        BY <1>6, FinalizerFacts DEF End
      <3>2. CASE task' = Idle
        BY <3>2, StartTypes DEF Idle
      <3> HIDE DEF patched
      <3>3. CASE task' = [task EXCEPT !.step = "handleMIC", !.mod = patched]
        BY <1>0, <2>2, <3>3 DEF TaskObject, Steps
      <3> QED BY <3>1, <3>2, <3>3
    <2>4. /\ module' \in [Modules -> ModuleObject] /\ cached' \in CacheObject
          /\ moduleEvents' \subseteq Modules /\ queue' \subseteq Modules
      <3>1. queue \in SUBSET Modules
        BY <1>0 DEF TypeOK
      <3>2. CASE WriteModule(task.m, patched, queue)
        BY <1>0, <2>2, <3>1, <3>2, WriteModuleFacts
      <3>3. CASE UNCHANGED <<module, cached, moduleEvents>> /\ (UNCHANGED queue \/ End(TRUE))
        BY <1>0, <2>2, <3>3 DEF TypeOK, End
      <3> QED BY <1>6, <3>2, <3>3, FinalizerFacts
    <2> QED BY <1>0, <2>1, <2>2, <2>3, <2>4 DEF TypeInv, TypeOK, TaskModule, TaskObject, CacheObject
  <1>7. ASSUME handleMIC
        PROVE  TypeInv'
    <2>1. task'.step # "idle" => task'.m \in Modules
      BY <1>7, MICFacts DEF Idle
    <2> QED BY <1>0, <1>7, <2>1, MICFacts DEF TypeInv, TypeOK, TaskModule, TaskObject, MICObject
  <1>9. ASSUME updateModuleStatus
        PROVE  TypeInv'
    <2>1. disturbances' \in 0..MaxDisturbances
      BY <1>0, <1>9, CountType DEF updateModuleStatus
    <2>2. /\ task.m \in Modules /\ task' = Idle
          /\ UNCHANGED <<node, nmc, mic, label, nmcEvents, misjudged, unset, leaked>>
      BY <1>9, StatusFacts
    <2>3. /\ module' \in [Modules -> ModuleObject] /\ cached' \in CacheObject
          /\ moduleEvents' \subseteq Modules /\ queue' \subseteq Modules
      BY <1>0, <1>9, StatusFacts, WriteModuleFacts
    <2> QED BY <1>0, <2>1, <2>2, <2>3, StartTypes
            DEF TypeInv, TypeOK, TaskModule, TaskObject, CacheObject, Idle
  <1> QED BY <1>1, <1>2, <1>3, <1>4, <1>5, <1>6, <1>7, <1>9 DEF ModuleController

(* A user's write of a Module.                                             *)
LEMMA UserFacts ==
  ASSUME TypeInv, NEW m \in Modules, CreateModule(m) \/ EditModule(m) \/ DeleteModule(m)
  PROVE  /\ \E new \in ModuleObject :
               /\ WriteModule(m, new, queue)
               /\ \/ module[m].phase = "none" /\ new.phase = "live" /\ ~new.finalizer
                  \/ /\ module[m].phase = "live" /\ new.phase = "live"
                     /\ new.finalizer = module[m].finalizer
                  \/ /\ module[m].phase = "live" /\ module[m].finalizer
                     /\ new.phase = "deleting" /\ new.finalizer
                  \/ /\ module[m].phase = "live" /\ ~module[m].finalizer
                     /\ new = Absent /\ NamespaceOf[m] \in leaked'
               /\ new # module[m]
         /\ task' = Outdated(m)
         /\ mic' \in [Modules -> MICObject]
         /\ leaked' \in {leaked, leaked \cup {NamespaceOf[m]}}
         /\ UNCHANGED <<node, nmc, label, nmcEvents, misjudged, unset>>
         /\ disturbances' \in 0..MaxDisturbances
  <1>0. TypeOK /\ module[m] \in ModuleObject /\ mic \in [Modules -> MICObject]
    BY DEF TypeInv, TypeOK, MICObject
  <1>1. disturbances' \in 0..MaxDisturbances
    BY <1>0, CountType DEF CreateModule, EditModule, DeleteModule
  <1>2. CASE CreateModule(m)
    <2>1. Created \in ModuleObject /\ Created.phase = "live" /\ ~Created.finalizer
      BY StartTypes DEF Created, Absent
    <2> QED BY <1>0, <1>1, <1>2, <2>1 DEF CreateModule, history
  <1>3. CASE EditModule(m)
    <2> DEFINE new == [module[m] EXCEPT !.rev = @ + 1]
    <2>1. new \in ModuleObject /\ new.phase = "live" /\ new.finalizer = module[m].finalizer
      BY <1>0, <1>3, SchedulingAssumption DEF EditModule, ModuleObject, Revs
    <2>2. new # module[m]
      BY <1>0, SchedulingAssumption DEF ModuleObject, Revs
    <2>3. WriteModule(m, new, queue) /\ module[m].phase = "live"
      BY <1>3 DEF EditModule
    <2> HIDE DEF new
    <2> QED BY <1>0, <1>1, <1>3, <2>1, <2>2, <2>3 DEF EditModule, history
  <1>4. CASE DeleteModule(m) /\ module[m].finalizer
    <2> DEFINE new == [module[m] EXCEPT !.phase = "deleting"]
    <2>1. new \in ModuleObject /\ new.phase = "deleting" /\ new.finalizer
      BY <1>0, <1>4 DEF ModuleObject
    <2>2. WriteModule(m, new, queue) /\ module[m].phase = "live"
      BY <1>4 DEF DeleteModule
    <2> HIDE DEF new
    <2> QED BY <1>0, <1>1, <1>4, <2>1, <2>2 DEF DeleteModule
  <1>5. CASE DeleteModule(m) /\ ~module[m].finalizer
    <2>1. Absent \in ModuleObject /\ Absent.phase = "none"
      BY StartTypes DEF Absent
    <2>2. mic' \in [Modules -> MICObject]
      <3>1. mic' = [mic EXCEPT ![m] = NoMIC]
        BY <1>5 DEF DeleteModule
      <3>2. NoMIC \in MICObject
        BY DEF NoMIC, MICObject
      <3> QED BY <1>0, <3>1, <3>2
    <2> QED BY <1>0, <1>1, <1>5, <2>1, <2>2 DEF DeleteModule
  <1> QED BY <1>2, <1>3, <1>4, <1>5

(* Steps that leave Modules, labels and the Reconcile alone.               *)
Bystander ==
    \/ \E n \in Nodes : DeliverNMC(n) \/ TaintNode(n) \/ UntaintNode(n)
    \/ \E ns \in Namespaces : DeliverNamespace(ns)
    \/ \E m \in Modules : ImageAppears(m)
    \/ \E n \in Nodes, m \in Modules : \/ NodeFollows(n, m) \/ CollectInUse(n, m)
                                       \/ RelabelNode(n, m) \/ WorkerLabel(n, m)

LEMMA BystanderFacts ==
  ASSUME TypeInv, Bystander
  PROVE  /\ UNCHANGED <<module, label, moduleEvents, task, misjudged, unset, leaked>>
         /\ cached' \in CacheObject /\ cached'.module = cached.module
         /\ queue \subseteq queue' /\ queue' \subseteq Modules
         /\ node' \in [Nodes -> NodeObject] /\ nmc' \in [Nodes -> NMCObject]
         /\ mic' \in [Modules -> MICObject]
         /\ nmcEvents' \in [Nodes -> SUBSET Modules]
         /\ disturbances' \in 0..MaxDisturbances
         /\ \/ UNCHANGED nmc
            \/ \E n \in Nodes, m \in Modules :
                  \/ nmc' = [nmc EXCEPT ![n].status[m] = nmc[n].spec[m]]
                  \/ /\ nmc[n].spec[m] = None /\ nmc[n].status[m] = None
                     /\ nmc' = [nmc EXCEPT ![n].inUse = @ \ {m}]
  <1> USE SchedulingAssumption
  <1>0. TypeOK /\ cached \in CacheObject /\ mic \in [Modules -> MICObject]
    BY DEF TypeInv, TypeOK, CacheObject, MICObject
  <1>1. ASSUME NEW n \in Nodes, DeliverNMC(n)
        PROVE  /\ cached' \in CacheObject /\ cached'.module = cached.module
               /\ queue \subseteq queue' /\ queue' \subseteq Modules
               /\ nmcEvents' \in [Nodes -> SUBSET Modules]
               /\ UNCHANGED <<objects, moduleEvents, task, disturbances, history>>
    <2>1. nmc[n] \in NMCObject /\ nmcEvents[n] \subseteq Modules
      BY <1>0 DEF TypeOK
    <2>2. [cached.nmc EXCEPT ![n] = nmc[n]] \in [Nodes -> NMCObject]
      BY <1>0, <2>1 DEF CacheObject
    <2>3. cached' \in CacheObject /\ cached'.module = cached.module
      BY <1>0, <1>1, <2>2 DEF DeliverNMC, CacheObject
    <2> QED BY <1>0, <1>1, <2>1, <2>3 DEF DeliverNMC, TypeOK
  <1>2. ASSUME NEW ns \in Namespaces, DeliverNamespace(ns)
        PROVE  /\ cached' \in CacheObject /\ cached'.module = cached.module
               /\ UNCHANGED <<objects, events, queue, task, disturbances, history>>
    BY <1>0, <1>2 DEF DeliverNamespace, CacheObject
  <1>3. ASSUME NEW m \in Modules, ImageAppears(m)
        PROVE  /\ mic' \in [Modules -> MICObject]
               /\ queue \subseteq queue' /\ queue' \subseteq Modules
               /\ UNCHANGED <<module, node, nmc, label, cached, events, task, disturbances, history>>
    <2>1. mic[m].exists \subseteq Images /\ mic[m].spec \subseteq Images
      BY <1>0 DEF MICObject
    <2>2. PICK i \in Images : mic' = [mic EXCEPT ![m].exists = @ \cup {i}]
      BY <1>3, <2>1 DEF ImageAppears
    <2>3. mic' \in [Modules -> MICObject]
      BY <1>0, <2>1, <2>2 DEF MICObject
    <2> QED BY <1>0, <1>3, <2>3 DEF ImageAppears, TypeOK
  <1>4. ASSUME NEW n \in Nodes, NEW m \in Modules, NodeFollows(n, m) \/ CollectInUse(n, m)
        PROVE  /\ nmc' \in [Nodes -> NMCObject]
               /\ cached' \in CacheObject /\ cached'.module = cached.module
               /\ nmcEvents' \in [Nodes -> SUBSET Modules]
               /\ queue \subseteq queue' /\ queue' \subseteq Modules
               /\ UNCHANGED <<module, node, mic, label, moduleEvents, task, history>>
               /\ disturbances' \in 0..MaxDisturbances
               /\ \/ nmc' = [nmc EXCEPT ![n].status[m] = nmc[n].spec[m]]
                  \/ /\ nmc[n].spec[m] = None /\ nmc[n].status[m] = None
                     /\ nmc' = [nmc EXCEPT ![n].inUse = @ \ {m}]
    <2>1. nmc[n] \in NMCObject
      BY <1>0 DEF TypeOK
    <2>2. [nmc[n] EXCEPT !.inUse = @ \ {m}] \in NMCObject
      BY <2>1 DEF NMCObject
    <2>3. [nmc[n].status EXCEPT ![m] = nmc[n].spec[m]] \in [Modules -> Images \cup {None}]
      BY <2>1 DEF NMCObject
    <2>4. [nmc[n] EXCEPT !.status[m] = nmc[n].spec[m]] \in NMCObject
      BY <2>1, <2>3 DEF NMCObject
    <2>5. disturbances' \in 0..MaxDisturbances
      BY <1>0, <1>4, CountType DEF NodeFollows, CollectInUse
    <2>6. CASE NodeFollows(n, m)
      <3>1. WriteNMC(n, [nmc[n] EXCEPT !.status[m] = nmc[n].spec[m]])
        BY <2>6 DEF NodeFollows
      <3>2. nmc' = [nmc EXCEPT ![n].status[m] = nmc[n].spec[m]]
        BY <3>1 DEF WriteNMC
      <3> QED BY <1>0, <2>4, <2>5, <2>6, <3>1, <3>2, WriteNMCType DEF NodeFollows
    <2>7. CASE CollectInUse(n, m)
      <3>1. WriteNMC(n, [nmc[n] EXCEPT !.inUse = @ \ {m}])
        BY <2>7 DEF CollectInUse
      <3>2. nmc' = [nmc EXCEPT ![n].inUse = @ \ {m}]
        BY <3>1 DEF WriteNMC
      <3> QED BY <1>0, <2>2, <2>5, <2>7, <3>1, <3>2, WriteNMCType DEF CollectInUse
    <2> QED BY <1>4, <2>6, <2>7
  <1>5. ASSUME NEW n \in Nodes, NEW m \in Modules \cup {None},
               \/ TaintNode(n) \/ UntaintNode(n)
               \/ m \in Modules /\ (RelabelNode(n, m) \/ WorkerLabel(n, m))
        PROVE  /\ node' \in [Nodes -> NodeObject]
               /\ queue \subseteq queue' /\ queue' \subseteq Modules
               /\ UNCHANGED <<module, nmc, mic, label, cached, events, task, history>>
               /\ disturbances' \in 0..MaxDisturbances
    <2>1. node[n] \in NodeObject
      BY <1>0 DEF TypeOK
    <2>2. /\ [node[n] EXCEPT !.tainted = TRUE] \in NodeObject
          /\ \A k \in Kernels : [node[n] EXCEPT !.tainted = FALSE, !.kernel = k] \in NodeObject
      BY <2>1 DEF NodeObject
    <2>3. m \in Modules => [node[n] EXCEPT !.selected = IF m \in @ THEN @ \ {m} ELSE @ \cup {m}] \in NodeObject
      BY <2>1 DEF NodeObject
    <2>4. m \in Modules => \A v \in Revs \cup {None} :
              [node[n].worker EXCEPT ![m] = v] \in [Modules -> Revs \cup {None}]
      BY <2>1 DEF NodeObject
    <2>5. m \in Modules => \A v \in Revs \cup {None} : [node[n] EXCEPT !.worker[m] = v] \in NodeObject
      BY <2>1, <2>4 DEF NodeObject
    <2>6. PICK new \in NodeObject : WriteNode(n, new)
      BY <1>5, <2>2, <2>3, <2>5 DEF TaintNode, UntaintNode, RelabelNode, WorkerLabel
    <2>7. /\ node' \in [Nodes -> NodeObject]
          /\ queue \subseteq queue' /\ queue' \subseteq Modules
      BY <1>0, <2>6, WriteNodeType
    <2>8. /\ UNCHANGED <<module, nmc, mic, label, cached, events, task, history>>
          /\ Disturbance \/ UNCHANGED disturbances
      BY <1>5 DEF TaintNode, UntaintNode, RelabelNode, WorkerLabel
    <2>9. disturbances' \in 0..MaxDisturbances
      BY <1>0, <2>8, CountType DEF TypeOK
    <2> QED BY <2>7, <2>8, <2>9
  <1>6. CASE \E n \in Nodes : DeliverNMC(n)
    BY <1>0, <1>1, <1>6 DEF objects, history, TypeOK
  <1>7. CASE \E ns \in Namespaces : DeliverNamespace(ns)
    BY <1>0, <1>2, <1>7 DEF objects, events, history, TypeOK
  <1>8. CASE \E m \in Modules : ImageAppears(m)
    BY <1>0, <1>3, <1>8 DEF events, history, TypeOK
  <1>9. CASE \E n \in Nodes, m \in Modules : NodeFollows(n, m) \/ CollectInUse(n, m)
    BY <1>0, <1>4, <1>9 DEF history, TypeOK
  <1>10. CASE \/ \E n \in Nodes : TaintNode(n) \/ UntaintNode(n)
              \/ \E n \in Nodes, m \in Modules : RelabelNode(n, m) \/ WorkerLabel(n, m)
    <2>1. PICK n \in Nodes, m \in Modules \cup {None} :
                 \/ TaintNode(n) \/ UntaintNode(n)
                 \/ m \in Modules /\ (RelabelNode(n, m) \/ WorkerLabel(n, m))
      BY <1>10
    <2> QED BY <1>0, <1>5, <2>1 DEF events, history, TypeOK
  <1> QED BY <1>6, <1>7, <1>8, <1>9, <1>10 DEF Bystander

(* What a delivered Module does.                                           *)
LEMMA DeliverFacts ==
  ASSUME TypeInv, NEW m \in Modules, DeliverModule(m)
  PROVE  /\ m \in moduleEvents /\ m \in queue' /\ queue' = queue \cup {m}
         /\ moduleEvents' = moduleEvents \ {m}
         /\ cached' \in CacheObject /\ cached'.label = cached.label /\ cached'.nmc = cached.nmc
         /\ cached'.module[m] = module[m]
         /\ \A k \in Modules \ {m} : cached'.module[k] = cached.module[k]
         /\ UNCHANGED <<module, node, nmc, mic, label, nmcEvents, task, disturbances,
                        misjudged, unset, leaked>>
  <1>0. cached \in CacheObject /\ module[m] \in ModuleObject
    BY DEF TypeInv, TypeOK, CacheObject
  <1>1. [cached.module EXCEPT ![m] = module[m]] \in [Modules -> ModuleObject]
    BY <1>0 DEF CacheObject
  <1>2. cached' = [cached EXCEPT !.module = [cached.module EXCEPT ![m] = module[m]]]
    BY <1>0 DEF DeliverModule, CacheObject
  <1>3. /\ cached' \in CacheObject /\ cached'.module = [cached.module EXCEPT ![m] = module[m]]
        /\ cached'.label = cached.label /\ cached'.nmc = cached.nmc
    BY <1>0, <1>1, <1>2 DEF CacheObject
  <1>4. /\ cached'.module[m] = module[m]
        /\ \A k \in Modules \ {m} : cached'.module[k] = cached.module[k]
    BY <1>0, <1>3 DEF CacheObject
  <1> QED BY <1>3, <1>4 DEF DeliverModule, objects, history

(* What a failing call does.                                               *)
LEMMA FailFacts ==
  ASSUME TypeInv, CallFails
  PROVE  /\ task.m \in Modules /\ task.step # "idle" /\ task' \in TaskObject
         /\ \/ task' = Idle /\ queue' = queue \cup {task.m}
            \/ /\ UNCHANGED queue /\ task.step \in {"finalizeModule", "schedule"}
               /\ task' = [task EXCEPT !.todo = task'.todo, !.failed = TRUE]
         /\ UNCHANGED <<objects, cached, events, history>>
         /\ disturbances' \in 0..MaxDisturbances
  <1>0. TypeOK /\ task \in TaskObject
    BY DEF TypeInv, TypeOK, TaskObject
  <1>1. disturbances' \in 0..MaxDisturbances
    BY <1>0, CountType DEF CallFails
  <1>2. task.step # "idle"
    BY DEF CallFails, Working
  <1>3. task.m \in Modules
    BY <1>2, Working_m
  <1>4. CASE End(TRUE)
    BY <1>1, <1>2, <1>3, <1>4, StartTypes DEF CallFails, End
  <1>5. CASE ~End(TRUE)
    <2>1. PICK n \in Nodes : task' = [task EXCEPT !.todo[n] = "nothing", !.failed = TRUE]
      BY <1>5 DEF CallFails
    <2>2. [task.todo EXCEPT ![n] = "nothing"] \in [Nodes -> {"nothing", "add", "delete"}]
      BY <1>0 DEF TaskObject
    <2>3. task' \in TaskObject /\ task' = [task EXCEPT !.todo = task'.todo, !.failed = TRUE]
      BY <1>0, <2>1, <2>2 DEF TaskObject
    <2> QED BY <1>1, <1>2, <1>3, <1>5, <2>3 DEF CallFails, Working
  <1> QED BY <1>4, <1>5

(* The steps of Next, in the groups the proofs go by.                      *)
LEMMA Steps_of_Next ==
  ASSUME Next
  PROVE  \/ ModuleController \/ CallFails \/ Bystander
         \/ \E m \in Modules : \/ DeliverModule(m)
                               \/ CreateModule(m) \/ EditModule(m) \/ DeleteModule(m)
  BY DEF Next, Cluster, Users, Bystander

(* ...and so do failed calls, users, nodes and the other controllers.      *)
LEMMA OthersType ==
  ASSUME TypeInv, Next, ~ModuleController
  PROVE  TypeInv'
  <1>0. TypeOK /\ task \in TaskObject
    BY DEF TypeInv, TypeOK, TaskObject
  <1>1. CASE CallFails
    <2>1. task'.step # "idle" => task'.m \in Modules
      <3>1. CASE task' = Idle
        BY <3>1 DEF Idle
      <3>2. CASE task' = [task EXCEPT !.todo = task'.todo, !.failed = TRUE]
        <4>1. task'.m = task.m
          BY <1>0, <3>2 DEF TaskObject
        <4> QED BY <1>1, <4>1, FailFacts
      <3> QED BY <1>1, <3>1, <3>2, FailFacts
    <2>2. queue' \subseteq Modules
      BY <1>0, <1>1, FailFacts DEF TypeOK
    <2> QED BY <1>0, <1>1, <2>1, <2>2, FailFacts
            DEF objects, events, history, TypeInv, TypeOK, TaskModule, TaskObject
  <1>2. CASE Bystander
    BY <1>0, <1>2, BystanderFacts DEF TypeInv, TypeOK, TaskModule, TaskObject, CacheObject, MICObject
  <1>3. ASSUME NEW m \in Modules, DeliverModule(m)
        PROVE  TypeInv'
    BY <1>0, <1>3, DeliverFacts DEF TypeInv, TypeOK, TaskModule, TaskObject, CacheObject
  <1>4. ASSUME NEW m \in Modules, CreateModule(m) \/ EditModule(m) \/ DeleteModule(m)
        PROVE  TypeInv'
    <2>1. queue \in SUBSET Modules /\ NamespaceOf[m] \in Namespaces
      BY <1>0, SchedulingAssumption DEF TypeOK
    <2>2. /\ module' \in [Modules -> ModuleObject] /\ cached' \in CacheObject
          /\ moduleEvents' \subseteq Modules /\ queue' \subseteq Modules
      BY <1>0, <1>4, <2>1, UserFacts, WriteModuleFacts
    <2>3. task' \in TaskObject /\ (task'.step # "idle" => task'.m \in Modules)
      <3>1. task' = task \/ task' = [task EXCEPT !.stale = TRUE]
        BY <1>4, UserFacts DEF Outdated
      <3> QED BY <1>0, <3>1 DEF TaskObject, TypeInv, TaskModule
    <2>4. leaked' \subseteq Namespaces
      BY <1>0, <1>4, <2>1, UserFacts DEF TypeOK
    <2> QED BY <1>0, <1>4, <2>2, <2>3, <2>4, UserFacts
            DEF TypeInv, TypeOK, TaskModule, TaskObject, CacheObject, MICObject
  <1> QED BY <1>1, <1>2, <1>3, <1>4, Steps_of_Next

(* At first there is nothing but the nodes and some Modules.               *)
LEMMA InitType == Init => TypeInv
  <1> USE SchedulingAssumption
  <1> SUFFICES ASSUME Init PROVE TypeInv
    OBVIOUS
  <1>1. EmptyNMC \in NMCObject
    BY DEF EmptyNMC, NMCObject
  <1>2. node \in [Nodes -> NodeObject]
    <2>1. \A k \in Kernels : [selected |-> Modules, tainted |-> FALSE, kernel |-> k,
                              worker |-> [m \in Modules |-> None]] \in NodeObject
      BY DEF NodeObject
    <2> QED BY <2>1 DEF Init
  <1>3. mic \in [Modules -> MICObject]
    BY DEF Init, NoMIC, MICObject
  <1>4. task \in TaskObject /\ module \in [Modules -> ModuleObject]
    BY StartTypes DEF Init
  <1>5. nmc \in [Nodes -> NMCObject]
    BY <1>1 DEF Init
  <1>6. cached \in CacheObject
    BY <1>4, <1>5 DEF Init, CacheObject
  <1>7. disturbances \in 0..MaxDisturbances
    BY DEF Init
  <1> QED BY <1>2, <1>3, <1>4, <1>5, <1>6, <1>7
          DEF Init, TypeInv, TypeOK, TaskModule, TaskObject, CacheObject, MICObject, Idle

(* TypeOK and TaskModule always hold.                                      *)
LEMMA TypeInvariant == Spec => []TypeInv
  <1>1. ASSUME TypeInv, [Next]_vars
        PROVE  TypeInv'
    <2>1. CASE Next
      BY <1>1, <2>1, ReconcileType, OthersType
    <2>2. CASE UNCHANGED vars
      BY <1>1, <2>2 DEF vars, objects, events, history, TypeInv, TypeOK, TaskModule
    <2> QED BY <1>1, <2>1, <2>2
  <1> QED BY <1>1, InitType, PTL DEF Spec

(* Every object keeps its type: the types of ModuleScheduling hold in      *)
(* every state of its behaviours, whatever fails, lags or is deleted.      *)
THEOREM TypeCorrect == Spec => []TypeOK
  <1>1. TypeInv => TypeOK
    BY DEF TypeInv
  <1> QED BY <1>1, TypeInvariant, PTL

-----------------------------------------------------------------------------
(* What the controller knows of Modules                                    *)

(* A Module that is being deleted has its finalizer.  Its cached copy: the *)
(* same if nothing is on its way; with its finalizer, live as long as the  *)
(* Module is; seen live with the finalizer, the Module has it still; seen  *)
(* live and gone, it went before it had one.                               *)
CopyOf(m) ==
    /\ module[m].phase = "deleting" => module[m].finalizer
    /\ m \notin moduleEvents => cached.module[m] = module[m]
    /\ module[m].phase = "live" /\ module[m].finalizer => cached.module[m].phase = "live"
    /\ cached.module[m].phase = "live" /\ cached.module[m].finalizer
           => module[m].phase # "none" /\ module[m].finalizer
    /\ cached.module[m].phase = "live" /\ module[m].phase = "none"
           => NamespaceOf[m] \in leaked

Deleting == task.step \in {"tryRemovingLabel", "finalizeModule"}
Starting == task.step \in {"setLabel", "setFinalizer"}
Scheduling == task.step \in {"handleMIC", "schedule"}

(* What a Reconcile knows of its Module.                                   *)
Knows ==
    /\ Deleting => task.mod.phase = "deleting"
    /\ Starting => task.mod.phase = "live"
    /\ (Deleting \/ Starting) /\ ~task.stale
           => task.m \notin moduleEvents /\ module[task.m] = task.mod
    /\ Scheduling \/ (Starting /\ task.mod.finalizer)
           => module[task.m].phase # "none" /\ module[task.m].finalizer

CopyInv == (\A m \in Modules : CopyOf(m)) /\ Knows

(* The Reconcile that starts.                                              *)
LEMMA StartFacts ==
  ASSUME TypeInv, NEW m \in Modules, StartReconcile(m)
  PROVE  /\ task.step = "idle" /\ m \in queue /\ queue' = queue \ {m}
         /\ UNCHANGED <<module, node, nmc, mic, label, cached, moduleEvents, nmcEvents,
                        disturbances, misjudged, unset, leaked>>
         /\ \/ task'.step = "idle" /\ cached.module[m].phase = "none"
            \/ /\ \/ task'.step = "tryRemovingLabel" /\ cached.module[m].phase = "deleting"
                  \/ task'.step = "setLabel" /\ cached.module[m].phase = "live"
               /\ task'.m = m /\ task'.mod = cached.module[m]
               /\ task'.stale <=> m \in moduleEvents
  <1>1. cached.module[m].phase \in {"none", "live", "deleting"}
    BY DEF TypeInv, TypeOK, ModuleObject
  <1>2. CASE cached.module[m].phase = "none"
    BY <1>2 DEF StartReconcile, Working, Idle, objects, events, history
  <1>3. CASE cached.module[m].phase # "none"
    BY <1>1, <1>3 DEF StartReconcile, Working, Idle, objects, events, history
  <1> QED BY <1>2, <1>3

(* The labels a finalization takes away.                                   *)
LEMMA RemoveFacts ==
  ASSUME TypeInv, tryRemovingLabel
  PROVE  /\ task.step = "tryRemovingLabel" /\ task.m \in Modules
         /\ task'.step = "finalizeModule" /\ task'.m = task.m /\ task'.mod = task.mod
         /\ task'.stale = task.stale
         /\ cached'.module = cached.module
         /\ UNCHANGED <<module, node, nmc, mic, moduleEvents, nmcEvents, queue, misjudged, unset>>
         /\ \/ /\ LiveModules(NamespaceOf[task.m]) # {}
               /\ label' = label /\ leaked' = leaked
            \/ /\ LiveModules(NamespaceOf[task.m]) = {}
               /\ \/ /\ label' = label \ {NamespaceOf[task.m]}
                     /\ leaked' = leaked \ {NamespaceOf[task.m]}
                  \/ /\ label' = label /\ NamespaceOf[task.m] \in label
                     /\ leaked' = leaked \cup {NamespaceOf[task.m]}
                  \/ /\ label' = label /\ NamespaceOf[task.m] \notin label
                     /\ leaked' = leaked
  <1>0. TypeOK /\ task \in TaskObject
    BY DEF TypeInv, TypeOK, TaskObject
  <1>1. task.step = "tryRemovingLabel" /\ task.m \in Modules
    BY Working_m DEF tryRemovingLabel, Working
  <1>2. /\ task'.step = "finalizeModule" /\ task'.m = task.m /\ task'.mod = task.mod
        /\ task'.stale = task.stale
    BY <1>0 DEF tryRemovingLabel, TaskObject
  <1>3. cached'.module = cached.module
    BY <1>0, WriteLabelType DEF tryRemovingLabel, TypeOK
  <1>4. label' = IF /\ LiveModules(NamespaceOf[task.m]) = {}
                    /\ NamespaceOf[task.m] \in cached.label
                 THEN label \ {NamespaceOf[task.m]} ELSE label
    BY DEF tryRemovingLabel, WriteLabel
  <1>5. leaked' = CASE /\ LiveModules(NamespaceOf[task.m]) = {}
                       /\ NamespaceOf[task.m] \in cached.label -> leaked \ {NamespaceOf[task.m]}
                    [] /\ LiveModules(NamespaceOf[task.m]) = {}
                       /\ NamespaceOf[task.m] \notin cached.label
                       /\ NamespaceOf[task.m] \in label -> leaked \cup {NamespaceOf[task.m]}
                    [] OTHER -> leaked
    BY DEF tryRemovingLabel
  <1>6. UNCHANGED <<module, node, nmc, mic, moduleEvents, nmcEvents, queue, misjudged, unset>>
    BY DEF tryRemovingLabel, events
  <1> QED BY <1>1, <1>2, <1>3, <1>4, <1>5, <1>6

(* The label a Reconcile sets.                                             *)
LEMMA SetLabelFacts ==
  ASSUME TypeInv, setLabel
  PROVE  /\ task.step = "setLabel" /\ task.m \in Modules
         /\ task'.step = "setFinalizer" /\ task'.m = task.m /\ task'.mod = task.mod
         /\ task'.stale = task.stale
         /\ cached'.module = cached.module
         /\ UNCHANGED <<module, node, nmc, mic, moduleEvents, nmcEvents, queue, misjudged, leaked>>
         /\ \/ /\ label' = label
               /\ unset' = IF NamespaceOf[task.m] \in label THEN unset
                           ELSE unset \cup {NamespaceOf[task.m]}
            \/ /\ label' = label \cup {NamespaceOf[task.m]}
               /\ unset' = unset \ {NamespaceOf[task.m]}
  <1>0. TypeOK /\ task \in TaskObject
    BY DEF TypeInv, TypeOK, TaskObject
  <1>1. /\ task.step = "setLabel" /\ task.m \in Modules
        /\ label \cup {NamespaceOf[task.m]} \in SUBSET Namespaces
    BY <1>0, Working_m DEF setLabel, Working, TypeOK
  <1>2. /\ task'.step = "setFinalizer" /\ task'.m = task.m /\ task'.mod = task.mod
        /\ task'.stale = task.stale
    BY <1>0 DEF setLabel, TaskObject
  <1>3. CASE NamespaceOf[task.m] \in cached.label
    BY <1>1, <1>2, <1>3 DEF setLabel, events
  <1>4. CASE NamespaceOf[task.m] \notin cached.label
    <2>1. WriteLabel(label \cup {NamespaceOf[task.m]})
      BY <1>4 DEF setLabel
    <2>2. label' = label \cup {NamespaceOf[task.m]} /\ cached'.module = cached.module
      BY <1>0, <1>1, <2>1, WriteLabelType
    <2> QED BY <1>1, <1>2, <1>4, <2>2 DEF setLabel, events
  <1> QED BY <1>3, <1>4

(* Steps that change no Module, nor what is known of one.                  *)
LEMMA CopyFrame ==
  ASSUME TypeInv, CopyInv, UNCHANGED <<module, moduleEvents, leaked>>,
         cached'.module = cached.module,
         \/ task'.step = "idle"
         \/ /\ task'.step = task.step /\ task'.m = task.m /\ task'.mod = task.mod
            /\ task'.stale = task.stale
         \/ Scheduling /\ task'.step \in {"handleMIC", "schedule"} /\ task'.m = task.m
  PROVE  CopyInv'
  <1>1. ASSUME NEW k \in Modules PROVE CopyOf(k)'
    BY DEF CopyInv, CopyOf
  <1>2. Knows'
    BY DEF CopyInv, Knows, Deleting, Starting, Scheduling
  <1> QED BY <1>1, <1>2 DEF CopyInv

(* The Reconcile.                                                          *)
LEMMA CopyReconcile ==
  ASSUME TypeInv, CopyInv, ModuleController
  PROVE  CopyInv'
  <1>0. TypeOK /\ task \in TaskObject /\ Knows /\ \A k \in Modules : CopyOf(k)
    BY DEF TypeInv, TypeOK, TaskObject, CopyInv
  <1>1. ASSUME NEW m \in Modules, StartReconcile(m)
        PROVE  CopyInv'
    <2>1. CASE task'.step = "idle"
      BY <1>1, <2>1, StartFacts, CopyFrame
    <2>2. CASE task'.step # "idle"
      <3>1. ASSUME NEW k \in Modules PROVE CopyOf(k)'
        BY <1>0, <1>1, StartFacts DEF CopyOf
      <3>2. CopyOf(m)
        BY <1>0
      <3>3. Knows'
        BY <1>1, <2>2, <3>2, StartFacts DEF CopyOf, Knows, Deleting, Starting, Scheduling
      <3> QED BY <3>1, <3>3 DEF CopyInv
    <2> QED BY <2>1, <2>2
  <1>2. ASSUME tryRemovingLabel
        PROVE  CopyInv'
    <2>1. ASSUME NEW k \in Modules PROVE CopyOf(k)'
      <3>1. CopyOf(k)
        BY <1>0
      <3>2. cached.module[k].phase = "live" => k \in LiveModules(NamespaceOf[k])
        BY DEF LiveModules
      <3>3. /\ UNCHANGED <<module, moduleEvents>> /\ cached'.module = cached.module
            /\ cached.module[k].phase = "live" /\ NamespaceOf[k] \in leaked
                   => NamespaceOf[k] \in leaked'
        BY <1>2, <3>2, RemoveFacts
      <3> QED BY <3>1, <3>3 DEF CopyOf
    <2>2. Knows'
      BY <1>0, <1>2, RemoveFacts DEF Knows, Deleting, Starting, Scheduling
    <2> QED BY <2>1, <2>2 DEF CopyInv
  <1>3. ASSUME NEW n \in Nodes, FinalizeNode(n) \/ ScheduleNode(n)
        PROVE  CopyInv'
    <2>1. /\ task'.step = task.step /\ task'.m = task.m /\ task'.mod = task.mod
          /\ task'.stale = task.stale
      BY <1>0, <1>3, NodeStepFacts DEF TaskObject
    <2> QED BY <1>3, <2>1, NodeStepFacts, NodeStepType, CopyFrame
  <1>4. ASSUME finalizeModule
        PROVE  CopyInv'
    <2>0. task'.step = "idle" /\ task.m \in Modules /\ leaked' = leaked
      BY <1>4, ReleaseFacts DEF Idle
    <2>1. CASE UNCHANGED <<module, cached, moduleEvents>>
      BY <2>0, <2>1, CopyFrame
    <2>2. CASE ~task.stale /\ WriteModule(task.m, Absent, queue)
      <3>1. /\ task.m \notin moduleEvents /\ module[task.m].phase = "deleting"
            /\ cached.module[task.m].phase = "deleting"
        BY <1>0, <1>4, <2>0, <2>2
           DEF finalizeModule, Working, Knows, Deleting, CopyOf
      <3>2. /\ module' = [module EXCEPT ![task.m] = Absent]
            /\ \A k \in Modules \ {task.m} : /\ cached'.module[k] = cached.module[k]
                                             /\ k \in moduleEvents' <=> k \in moduleEvents
            /\ \/ task.m \in moduleEvents' /\ cached' = cached
               \/ task.m \notin moduleEvents' /\ cached'.module[task.m] = Absent
        <4>1. Absent # module[task.m]
          BY <3>1 DEF Absent
        <4>2. queue \in SUBSET Modules
          BY <1>0 DEF TypeOK
        <4> QED BY <1>0, <2>0, <2>2, <4>1, <4>2, StartTypes, WriteModuleFacts
      <3>3. ASSUME NEW k \in Modules PROVE CopyOf(k)'
        <4>1. CASE k # task.m
          BY <1>0, <2>0, <3>2, <4>1 DEF CopyOf, TypeOK
        <4>2. CASE k = task.m
          BY <1>0, <2>0, <3>1, <3>2, <4>2 DEF CopyOf, TypeOK, Absent
        <4> QED BY <4>1, <4>2
      <3>4. Knows'
        BY <2>0 DEF Knows, Deleting, Starting, Scheduling
      <3> QED BY <3>3, <3>4 DEF CopyInv
    <2> QED BY <1>4, <2>1, <2>2, ReleaseFacts
  <1>5. ASSUME setLabel
        PROVE  CopyInv'
    <2>1. ASSUME NEW k \in Modules PROVE CopyOf(k)'
      BY <1>0, <1>5, SetLabelFacts DEF CopyOf
    <2>2. Knows'
      BY <1>0, <1>5, SetLabelFacts DEF Knows, Deleting, Starting, Scheduling
    <2> QED BY <2>1, <2>2 DEF CopyInv
  <1>6. ASSUME setFinalizerAndStatus
        PROVE  CopyInv'
    <2> DEFINE patched == [task.mod EXCEPT !.finalizer = TRUE]
    <2>0. /\ task.m \in Modules /\ task.step = "setFinalizer" /\ leaked' = leaked
          /\ patched \in ModuleObject
          /\ task' = Idle \/ task' = [task EXCEPT !.step = "handleMIC", !.mod = patched]
      BY <1>6, FinalizerFacts DEF End
    <2>1. task'.step = "idle" \/ (task'.step = "handleMIC" /\ task'.m = task.m)
      <3>1. CASE task' = Idle
        BY <3>1 DEF Idle
      <3>2. CASE task' = [task EXCEPT !.step = "handleMIC", !.mod = patched]
        BY <1>0, <3>2 DEF TaskObject
      <3> QED BY <2>0, <3>1, <3>2
    <2>2. CASE UNCHANGED <<module, cached, moduleEvents>> /\ task'.step = "idle"
      BY <2>0, <2>2, CopyFrame
    <2>3. CASE UNCHANGED <<module, cached, moduleEvents>> /\ task.mod.finalizer
      <3>1. ASSUME NEW k \in Modules PROVE CopyOf(k)'
        BY <1>0, <2>0, <2>3 DEF CopyOf
      <3>2. Knows'
        BY <1>0, <2>0, <2>1, <2>3 DEF Knows, Deleting, Starting, Scheduling
      <3> QED BY <3>1, <3>2 DEF CopyInv
    <2>4. CASE ~task.stale /\ WriteModule(task.m, patched, queue)
      <3>1. /\ task.m \notin moduleEvents /\ module[task.m] = task.mod
            /\ cached.module[task.m] = task.mod /\ task.mod.phase = "live"
        BY <1>0, <2>0, <2>4 DEF Knows, Starting, CopyOf
      <3>2. patched.phase = "live" /\ patched.finalizer
        BY <1>0, <3>1 DEF TaskObject, ModuleObject
      <3> HIDE DEF patched
      <3>3. /\ module' = [module EXCEPT ![task.m] = patched]
            /\ \A k \in Modules \ {task.m} : /\ cached'.module[k] = cached.module[k]
                                             /\ k \in moduleEvents' <=> k \in moduleEvents
            /\ \/ patched = module[task.m] /\ cached' = cached /\ moduleEvents' = moduleEvents
               \/ task.m \in moduleEvents' /\ cached' = cached
               \/ task.m \notin moduleEvents' /\ cached'.module[task.m] = patched
        <4>1. queue \in SUBSET Modules
          BY <1>0 DEF TypeOK
        <4> QED BY <1>0, <2>0, <2>4, <4>1, WriteModuleFacts
      <3>4. ASSUME NEW k \in Modules PROVE CopyOf(k)'
        <4>1. CASE k # task.m
          BY <1>0, <2>0, <3>3, <4>1 DEF CopyOf, TypeOK
        <4>2. CASE k = task.m
          BY <1>0, <2>0, <3>1, <3>2, <3>3, <4>2 DEF CopyOf, TypeOK
        <4> QED BY <4>1, <4>2
      <3>5. Knows'
        BY <1>0, <2>0, <2>1, <3>2, <3>3 DEF Knows, Deleting, Starting, Scheduling, TypeOK
      <3> QED BY <3>4, <3>5 DEF CopyInv
    <2> QED BY <1>6, <2>2, <2>3, <2>4, FinalizerFacts DEF End, Idle
  <1>7. ASSUME handleMIC
        PROVE  CopyInv'
    <2>1. \/ task'.step = "idle"
          \/ Scheduling /\ task'.step \in {"handleMIC", "schedule"} /\ task'.m = task.m
      BY <1>7, MICFacts DEF Scheduling, Idle
    <2> QED BY <1>7, <2>1, MICFacts, CopyFrame
  <1>9. ASSUME updateModuleStatus
        PROVE  CopyInv'
    <2>0. task'.step = "idle" /\ task.m \in Modules /\ leaked' = leaked
      BY <1>9, StatusFacts DEF Idle
    <2>1. PICK new \in ModuleObject, waiting \in SUBSET Modules :
                 /\ WriteModule(task.m, new, waiting)
                 /\ new.phase = module[task.m].phase /\ new.finalizer = module[task.m].finalizer
      BY <1>9, StatusFacts
    <2>2. /\ module' = [module EXCEPT ![task.m] = new]
          /\ \A k \in Modules \ {task.m} : /\ cached'.module[k] = cached.module[k]
                                           /\ k \in moduleEvents' <=> k \in moduleEvents
          /\ \/ new = module[task.m] /\ cached' = cached /\ moduleEvents' = moduleEvents
             \/ task.m \in moduleEvents' /\ cached' = cached
             \/ task.m \notin moduleEvents' /\ cached'.module[task.m] = new
      BY <1>0, <2>0, <2>1, WriteModuleFacts
    <2>3. ASSUME NEW k \in Modules PROVE CopyOf(k)'
      <3>1. CASE k # task.m
        BY <1>0, <2>0, <2>2, <3>1 DEF CopyOf, TypeOK
      <3>2. CASE k = task.m
        BY <1>0, <2>0, <2>1, <2>2, <3>2 DEF CopyOf, TypeOK
      <3> QED BY <3>1, <3>2
    <2>4. Knows'
      BY <2>0 DEF Knows, Deleting, Starting, Scheduling
    <2> QED BY <2>3, <2>4 DEF CopyInv
  <1> QED BY <1>1, <1>2, <1>3, <1>4, <1>5, <1>6, <1>7, <1>9 DEF ModuleController

(* Failing calls leave what the Reconcile knows.                           *)
LEMMA FailFrame ==
  ASSUME TypeInv, CallFails
  PROVE  /\ UNCHANGED <<module, node, nmc, mic, label, cached, moduleEvents, nmcEvents,
                        misjudged, unset, leaked>>
         /\ task.m \in Modules /\ queue \subseteq queue'
         /\ \/ task'.step = "idle" /\ task.m \in queue'
            \/ /\ task'.step = task.step /\ task.step \in {"finalizeModule", "schedule"}
               /\ task'.m = task.m /\ task'.mod = task.mod /\ task'.stale = task.stale
  <1>0. task \in TaskObject
    BY DEF TypeInv, TypeOK, TaskObject
  <1>1. CASE task' = Idle
    BY <1>1, FailFacts DEF objects, events, history, Idle
  <1>2. CASE task' = [task EXCEPT !.todo = task'.todo, !.failed = TRUE]
    <2>1. /\ task'.step = task.step /\ task'.m = task.m /\ task'.mod = task.mod
          /\ task'.stale = task.stale
      BY <1>0, <1>2 DEF TaskObject
    <2> QED BY <1>2, <2>1, FailFacts DEF objects, events, history, Idle
  <1> QED BY <1>1, <1>2, FailFacts

(* What a user's write leaves of the Reconcile and of other Modules.       *)
LEMMA UserFrame ==
  ASSUME TypeInv, NEW m \in Modules, CreateModule(m) \/ EditModule(m) \/ DeleteModule(m)
  PROVE  /\ module' \in [Modules -> ModuleObject]
         /\ \A k \in Modules \ {m} : /\ module'[k] = module[k]
                                     /\ cached'.module[k] = cached.module[k]
                                     /\ k \in moduleEvents' <=> k \in moduleEvents
         /\ \/ m \in moduleEvents' /\ cached' = cached
            \/ m \notin moduleEvents' /\ m \in queue' /\ cached'.module[m] = module'[m]
         /\ \/ module[m].phase = "none" /\ module'[m].phase = "live" /\ ~module'[m].finalizer
            \/ /\ module[m].phase = "live" /\ module'[m].phase = "live"
               /\ module'[m].finalizer = module[m].finalizer
            \/ /\ module[m].phase = "live" /\ module[m].finalizer
               /\ module'[m].phase = "deleting" /\ module'[m].finalizer
            \/ /\ module[m].phase = "live" /\ ~module[m].finalizer
               /\ module'[m].phase = "none" /\ ~module'[m].finalizer /\ NamespaceOf[m] \in leaked'
         /\ task'.step = task.step /\ task'.m = task.m /\ task'.mod = task.mod
         /\ task.m # m => task'.stale = task.stale
         /\ task.m = m => task'.stale
         /\ leaked \subseteq leaked' /\ queue \subseteq queue'
  <1>0. TypeOK /\ task \in TaskObject
    BY DEF TypeInv, TypeOK, TaskObject
  <1>1. PICK new \in ModuleObject :
               /\ WriteModule(m, new, queue)
               /\ \/ module[m].phase = "none" /\ new.phase = "live" /\ ~new.finalizer
                  \/ /\ module[m].phase = "live" /\ new.phase = "live"
                     /\ new.finalizer = module[m].finalizer
                  \/ /\ module[m].phase = "live" /\ module[m].finalizer
                     /\ new.phase = "deleting" /\ new.finalizer
                  \/ /\ module[m].phase = "live" /\ ~module[m].finalizer
                     /\ new = Absent /\ NamespaceOf[m] \in leaked'
               /\ new # module[m]
    BY UserFacts
  <1>2. queue \in SUBSET Modules
    BY <1>0 DEF TypeOK
  <1>3. /\ module' = [module EXCEPT ![m] = new] /\ module' \in [Modules -> ModuleObject]
        /\ \A k \in Modules \ {m} : /\ cached'.module[k] = cached.module[k]
                                    /\ k \in moduleEvents' <=> k \in moduleEvents
        /\ \/ m \in moduleEvents' /\ cached' = cached
           \/ m \notin moduleEvents' /\ m \in queue' /\ cached'.module[m] = new
        /\ queue \subseteq queue'
    BY <1>0, <1>1, <1>2, WriteModuleFacts
  <1>4. module'[m] = new /\ \A k \in Modules \ {m} : module'[k] = module[k]
    BY <1>0, <1>3 DEF TypeOK
  <1>5. Absent.phase = "none" /\ ~Absent.finalizer
    BY DEF Absent
  <1>6. /\ task'.step = task.step /\ task'.m = task.m /\ task'.mod = task.mod
        /\ task.m # m => task'.stale = task.stale
        /\ task.m = m => task'.stale
    <2>1. task' = Outdated(m)
      BY UserFacts
    <2>2. CASE task.m = m
      BY <1>0, <2>1, <2>2 DEF Outdated, TaskObject
    <2>3. CASE task.m # m
      BY <2>1, <2>3 DEF Outdated
    <2> QED BY <2>2, <2>3
  <1>7. leaked \subseteq leaked'
    BY UserFacts
  <1> QED BY <1>1, <1>3, <1>4, <1>5, <1>6, <1>7

LEMMA CopyOthers ==
  ASSUME TypeInv, CopyInv, Next, ~ModuleController
  PROVE  CopyInv'
  <1>0. TypeOK /\ Knows /\ \A k \in Modules : CopyOf(k)
    BY DEF TypeInv, CopyInv
  <1>1. CASE CallFails
    BY <1>1, FailFrame, CopyFrame
  <1>2. CASE Bystander
    BY <1>2, BystanderFacts, CopyFrame
  <1>3. ASSUME NEW m \in Modules, DeliverModule(m)
        PROVE  CopyInv'
    <2>1. ASSUME NEW k \in Modules PROVE CopyOf(k)'
      <3>1. CASE k # m
        BY <1>0, <1>3, <3>1, DeliverFacts DEF CopyOf
      <3>2. CASE k = m
        BY <1>0, <1>3, <3>2, DeliverFacts DEF CopyOf
      <3> QED BY <3>1, <3>2
    <2>2. Knows'
      BY <1>0, <1>3, DeliverFacts DEF Knows, Deleting, Starting, Scheduling
    <2> QED BY <2>1, <2>2 DEF CopyInv
  <1>4. ASSUME NEW m \in Modules, CreateModule(m) \/ EditModule(m) \/ DeleteModule(m)
        PROVE  CopyInv'
    <2>1. ASSUME NEW k \in Modules PROVE CopyOf(k)'
      <3>1. CASE k # m
        BY <1>0, <1>4, <3>1, UserFrame DEF CopyOf
      <3>2. CASE k = m
        BY <1>0, <1>4, <3>2, UserFrame DEF CopyOf
      <3> QED BY <3>1, <3>2
    <2>2. task.step # "idle" => task.m \in Modules
      BY DEF TypeInv, TaskModule
    <2>3. Knows'
      <3>1. CASE task.m # m
        BY <1>0, <1>4, <2>2, <3>1, UserFrame DEF Knows, Deleting, Starting, Scheduling
      <3>2. CASE task.m = m
        BY <1>0, <1>4, <3>2, UserFrame DEF Knows, Deleting, Starting, Scheduling
      <3> QED BY <3>1, <3>2
    <2> QED BY <2>1, <2>3 DEF CopyInv
  <1> QED BY <1>1, <1>2, <1>3, <1>4, Steps_of_Next

(* At first every copy is right.                                           *)
LEMMA CopyInit == Init => CopyInv
  <1> SUFFICES ASSUME Init PROVE CopyInv
    OBVIOUS
  <1>1. cached.module = module /\ task.step = "idle"
    BY DEF Init, Idle
  <1>2. ASSUME NEW m \in Modules PROVE CopyOf(m)
    <2>1. module[m].phase \in {"none", "live"} /\ ~module[m].finalizer
      BY DEF Init, Absent, Created
    <2> QED BY <1>1, <2>1 DEF CopyOf
  <1> QED BY <1>1, <1>2 DEF CopyInv, Knows, Deleting, Starting, Scheduling

-----------------------------------------------------------------------------
(* What protects a namespace                                               *)

(* The label comes before the finalizer.                                   *)
LabelFirst == task.step = "setFinalizer" => NamespaceOf[task.m] \in label \cup unset

ProtectInv == NamespaceProtected /\ LabelFirst

(* A step that takes no label away and gives no Module a finalizer.        *)
LEMMA ProtectFrame ==
  ASSUME ProtectInv, label \cup unset \subseteq label' \cup unset',
         \A m \in Modules : module'[m].phase = "live" /\ module'[m].finalizer
                                => module[m].phase = "live" /\ module[m].finalizer,
         task'.step = "setFinalizer"
             => \/ task.step = "setFinalizer" /\ task'.m = task.m
                \/ NamespaceOf[task'.m] \in label' \cup unset'
  PROVE  ProtectInv'
  BY DEF ProtectInv, NamespaceProtected, LabelFirst

LEMMA ProtectStep ==
  ASSUME TypeInv, CopyInv, ProtectInv, Next
  PROVE  ProtectInv'
  <1>0. TypeOK /\ task \in TaskObject /\ Knows /\ \A k \in Modules : CopyOf(k)
    BY DEF TypeInv, TypeOK, TaskObject, CopyInv
  <1>1. ASSUME NEW m \in Modules, StartReconcile(m)
        PROVE  ProtectInv'
    BY <1>1, StartFacts, ProtectFrame
  <1>2. ASSUME tryRemovingLabel
        PROVE  ProtectInv'
    <2>1. NamespaceProtected'
      <3> SUFFICES ASSUME NEW m \in Modules, module'[m].phase = "live", module'[m].finalizer
                   PROVE  NamespaceOf[m] \in label' \cup unset'
        BY DEF NamespaceProtected
      <3>1. module[m].phase = "live" /\ module[m].finalizer
        BY <1>2, RemoveFacts
      <3>2. NamespaceOf[m] \in label \cup unset
        BY <3>1 DEF ProtectInv, NamespaceProtected
      <3>3. m \in LiveModules(NamespaceOf[m])
        BY <1>0, <3>1 DEF CopyOf, LiveModules
      <3> QED BY <1>2, <3>2, <3>3, RemoveFacts
    <2>2. LabelFirst'
      BY <1>2, RemoveFacts DEF LabelFirst
    <2> QED BY <2>1, <2>2 DEF ProtectInv
  <1>3. ASSUME NEW n \in Nodes, FinalizeNode(n) \/ ScheduleNode(n)
        PROVE  ProtectInv'
    <2>1. task'.step # "setFinalizer"
      BY <1>0, <1>3, NodeStepFacts DEF TaskObject
    <2> QED BY <1>3, <2>1, NodeStepFacts, ProtectFrame
  <1>4. ASSUME finalizeModule
        PROVE  ProtectInv'
    <2>1. task'.step # "setFinalizer" /\ UNCHANGED <<label, unset>> /\ task.m \in Modules
      BY <1>4, ReleaseFacts DEF Idle
    <2>2. module' = module \/ module' = [module EXCEPT ![task.m] = Absent]
      BY <1>4, ReleaseFacts DEF WriteModule
    <2>3. \A m \in Modules : module'[m].phase = "live" /\ module'[m].finalizer
                                 => module[m].phase = "live" /\ module[m].finalizer
      BY <1>0, <2>1, <2>2 DEF TypeOK, Absent
    <2> QED BY <2>1, <2>3, ProtectFrame
  <1>5. ASSUME setLabel
        PROVE  ProtectInv'
    BY <1>5, SetLabelFacts, ProtectFrame
  <1>6. ASSUME setFinalizerAndStatus
        PROVE  ProtectInv'
    <2>1. /\ task.m \in Modules /\ task.step = "setFinalizer" /\ UNCHANGED <<label, unset>>
          /\ \/ module' = module
             \/ module' = [module EXCEPT ![task.m] = [task.mod EXCEPT !.finalizer = TRUE]]
      BY <1>6, FinalizerFacts DEF WriteModule
    <2>2. task'.step # "setFinalizer"
      <3>1. CASE task' = Idle
        BY <3>1 DEF Idle
      <3>2. CASE task' = [task EXCEPT !.step = "handleMIC",
                                      !.mod = [task.mod EXCEPT !.finalizer = TRUE]]
        BY <1>0, <3>2 DEF TaskObject
      <3> QED BY <1>6, <3>1, <3>2, FinalizerFacts DEF End
    <2>3. NamespaceOf[task.m] \in label \cup unset
      BY <2>1 DEF ProtectInv, LabelFirst
    <2>4. NamespaceProtected'
      <3> SUFFICES ASSUME NEW m \in Modules, module'[m].phase = "live", module'[m].finalizer
                   PROVE  NamespaceOf[m] \in label' \cup unset'
        BY DEF NamespaceProtected
      <3>1. CASE m = task.m
        BY <2>1, <2>3, <3>1
      <3>2. CASE m # task.m
        <4>1. module'[m] = module[m]
          BY <1>0, <2>1, <3>2 DEF TypeOK
        <4> QED BY <2>1, <4>1 DEF ProtectInv, NamespaceProtected
      <3> QED BY <3>1, <3>2
    <2> QED BY <2>2, <2>4 DEF ProtectInv, LabelFirst
  <1>7. ASSUME handleMIC
        PROVE  ProtectInv'
    <2>1. task'.step # "setFinalizer"
      BY <1>7, MICFacts DEF Idle
    <2> QED BY <1>7, <2>1, MICFacts, ProtectFrame
  <1>8. ASSUME updateModuleStatus
        PROVE  ProtectInv'
    <2>1. task'.step # "setFinalizer" /\ UNCHANGED <<label, unset>> /\ task.m \in Modules
      BY <1>8, StatusFacts DEF Idle
    <2>2. PICK new \in ModuleObject :
                 /\ module' = [module EXCEPT ![task.m] = new]
                 /\ new.phase = module[task.m].phase /\ new.finalizer = module[task.m].finalizer
      BY <1>8, StatusFacts DEF WriteModule
    <2>3. \A m \in Modules : module'[m].phase = "live" /\ module'[m].finalizer
                                 => module[m].phase = "live" /\ module[m].finalizer
      BY <1>0, <2>1, <2>2 DEF TypeOK
    <2> QED BY <2>1, <2>3, ProtectFrame
  <1>9. CASE CallFails
    BY <1>9, FailFrame, ProtectFrame
  <1>10. CASE Bystander
    BY <1>10, BystanderFacts, ProtectFrame
  <1>11. ASSUME NEW m \in Modules, DeliverModule(m)
         PROVE  ProtectInv'
    BY <1>11, DeliverFacts, ProtectFrame
  <1>12. ASSUME NEW m \in Modules, CreateModule(m) \/ EditModule(m) \/ DeleteModule(m)
         PROVE  ProtectInv'
    <2>1. \A k \in Modules : module'[k].phase = "live" /\ module'[k].finalizer
                                 => module[k].phase = "live" /\ module[k].finalizer
      BY <1>12, UserFrame
    <2> QED BY <1>12, <2>1, UserFrame, UserFacts, ProtectFrame
  <1> QED BY <1>1, <1>2, <1>3, <1>4, <1>5, <1>6, <1>7, <1>8, <1>9, <1>10, <1>11, <1>12,
             Steps_of_Next DEF ModuleController

LEMMA ProtectInvariant == Spec => [](TypeInv /\ CopyInv /\ ProtectInv)
  <1>1. Init => TypeInv /\ CopyInv /\ ProtectInv
    <2>1. Init => ProtectInv
      BY DEF Init, Idle, Absent, Created, ProtectInv, NamespaceProtected, LabelFirst
    <2> QED BY <2>1, InitType, CopyInit
  <1>2. ASSUME TypeInv, CopyInv, ProtectInv, [Next]_vars
        PROVE  TypeInv' /\ CopyInv' /\ ProtectInv'
    <2>1. CASE Next
      BY <1>2, <2>1, ReconcileType, OthersType, CopyReconcile, CopyOthers, ProtectStep
    <2>2. CASE UNCHANGED vars
      BY <1>2, <2>2
         DEF vars, objects, events, history, TypeInv, TypeOK, TaskModule, CopyInv, CopyOf, Knows,
             Deleting, Starting, Scheduling, ProtectInv, NamespaceProtected, LabelFirst
    <2> QED BY <1>2, <2>1, <2>2
  <1> QED BY <1>1, <1>2, PTL DEF Spec

(* From its first complete Reconcile to its deletion a Module's namespace  *)
(* has the label, however Modules and Reconciles interleave and however    *)
(* the cached Modules lag; only a setLabel that met a cached Namespace     *)
(* with the label just removed leaves it without.                          *)
THEOREM ProtectedWhileLive == Spec => []NamespaceProtected
  <1>1. ProtectInv => NamespaceProtected
    BY DEF ProtectInv
  <1> QED BY <1>1, ProtectInvariant, PTL

-----------------------------------------------------------------------------
(* Who takes the label away                                                *)

(* A Module in whose time, or by whose deletion, the label is looked after. *)
Witness(m) ==
    \/ module[m].phase = "live"
    \/ /\ module[m].phase = "deleting"
       /\ \/ m \in queue \cup moduleEvents
          \/ task.m = m /\ task.step = "tryRemovingLabel"

(* Every label has one: not the Module that is about to go, which is past  *)
(* looking at labels.                                                      *)
Accounted ==
    \A ns \in label \ leaked :
        \E m \in Modules : /\ NamespaceOf[m] = ns /\ Witness(m)
                           /\ task.step = "finalizeModule" /\ ~task.stale => m # task.m

(* So will the label that is about to be set.                              *)
LabelWanted == task.step = "setLabel" => Witness(task.m) \/ NamespaceOf[task.m] \in leaked

AccountInv == Accounted /\ LabelWanted

(* A step that adds no label and after which whoever looked after one      *)
(* still does.                                                             *)
LEMMA AccountFrame ==
  ASSUME AccountInv, label' \ leaked' \subseteq label \ leaked,
         \A m \in Modules :
             /\ Witness(m)
             /\ task.step = "finalizeModule" /\ ~task.stale => m # task.m
             => \/ NamespaceOf[m] \in leaked'
                \/ /\ Witness(m)'
                   /\ task'.step = "finalizeModule" /\ ~task'.stale => m # task'.m,
         LabelWanted'
  PROVE  AccountInv'
  <1>1. Accounted'
    <2> SUFFICES ASSUME NEW ns \in label' \ leaked'
                 PROVE  \E m \in Modules :
                            /\ NamespaceOf[m] = ns /\ Witness(m)'
                            /\ task'.step = "finalizeModule" /\ ~task'.stale => m # task'.m
      BY DEF Accounted
    <2>1. PICK m \in Modules : /\ NamespaceOf[m] = ns /\ Witness(m)
                               /\ task.step = "finalizeModule" /\ ~task.stale => m # task.m
      BY DEF AccountInv, Accounted
    <2> QED BY <2>1
  <1> QED BY <1>1 DEF AccountInv

LEMMA AccountReconcile ==
  ASSUME TypeInv, CopyInv, AccountInv, ModuleController
  PROVE  AccountInv'
  <1>0. TypeOK /\ task \in TaskObject /\ Knows /\ \A k \in Modules : CopyOf(k)
    BY DEF TypeInv, TypeOK, TaskObject, CopyInv
  <1>1. ASSUME NEW m \in Modules, StartReconcile(m)
        PROVE  AccountInv'
    <2>1. ASSUME NEW k \in Modules, Witness(k) PROVE Witness(k)'
      <3>1. CASE k # m
        BY <1>1, <2>1, <3>1, StartFacts DEF Witness
      <3>2. CASE k = m
        BY <1>0, <1>1, <2>1, <3>2, StartFacts DEF Witness, CopyOf
      <3> QED BY <3>1, <3>2
    <2>2. LabelWanted'
      <3>1. CASE task'.step = "setLabel"
        <4>1. module[m].phase \in {"none", "live", "deleting"}
          BY <1>0 DEF TypeOK, ModuleObject
        <4>2. \/ module[m].phase = "live" \/ NamespaceOf[m] \in leaked
              \/ module[m].phase = "deleting" /\ m \in moduleEvents
          BY <1>0, <1>1, <3>1, <4>1, StartFacts DEF CopyOf
        <4> QED BY <1>1, <3>1, <4>2, StartFacts DEF LabelWanted, Witness
      <3>2. CASE task'.step # "setLabel"
        BY <3>2 DEF LabelWanted
      <3> QED BY <3>1, <3>2
    <2> QED BY <1>1, <2>1, <2>2, StartFacts, AccountFrame
  <1>2. ASSUME tryRemovingLabel
        PROVE  AccountInv'
    <2> DEFINE here == NamespaceOf[task.m]
    <2>1. LabelWanted'
      BY <1>2, RemoveFacts DEF LabelWanted
    <2>2. Accounted'
      <3> SUFFICES ASSUME NEW ns \in label' \ leaked'
                   PROVE  \E m \in Modules :
                              /\ NamespaceOf[m] = ns /\ Witness(m)'
                              /\ ~task'.stale => m # task'.m
        BY <1>2, RemoveFacts DEF Accounted
      <3>1. CASE ns # here
        <4>1. ns \in label \ leaked
          BY <1>2, <3>1, RemoveFacts
        <4>2. PICK m \in Modules : NamespaceOf[m] = ns /\ Witness(m)
          BY <4>1 DEF AccountInv, Accounted
        <4> QED BY <1>2, <3>1, <4>2, RemoveFacts DEF Witness
      <3>2. CASE ns = here
        <4>1. ns \in label \ leaked /\ LiveModules(here) # {}
          BY <1>2, <3>2, RemoveFacts
        <4>2. PICK m \in Modules : NamespaceOf[m] = here /\ cached.module[m].phase = "live"
          BY <4>1 DEF LiveModules
        <4>3. module[m].phase \in {"none", "live", "deleting"}
          BY <1>0 DEF TypeOK, ModuleObject
        <4>4. module[m].phase = "live" \/ (module[m].phase = "deleting" /\ m \in moduleEvents)
          BY <1>0, <3>2, <4>1, <4>2, <4>3 DEF CopyOf
        <4>5. ~task.stale => m # task.m
          BY <1>0, <1>2, <4>2, RemoveFacts DEF Knows, Deleting, CopyOf
        <4> QED BY <1>2, <3>2, <4>2, <4>4, <4>5, RemoveFacts DEF Witness
      <3> QED BY <3>1, <3>2
    <2> QED BY <2>1, <2>2 DEF AccountInv
  <1>3. ASSUME NEW n \in Nodes, FinalizeNode(n) \/ ScheduleNode(n)
        PROVE  AccountInv'
    <2>1. /\ task'.step = task.step /\ task'.m = task.m /\ task'.stale = task.stale
          /\ task.step \in {"finalizeModule", "schedule"}
      BY <1>0, <1>3, NodeStepFacts DEF TaskObject
    <2>2. UNCHANGED <<module, label, moduleEvents, leaked>> /\ queue \subseteq queue'
      BY <1>3, NodeStepFacts, NodeStepType
    <2>3. \A k \in Modules : Witness(k) => Witness(k)'
      BY <2>1, <2>2 DEF Witness
    <2>4. LabelWanted'
      BY <2>1 DEF LabelWanted
    <2> QED BY <2>1, <2>2, <2>3, <2>4, AccountFrame
  <1>4. ASSUME finalizeModule
        PROVE  AccountInv'
    <2>0. /\ task'.step = "idle" /\ task.m \in Modules /\ UNCHANGED <<label, leaked>>
          /\ task.step = "finalizeModule" /\ LabelWanted'
      <3>1. task.step = "finalizeModule"
        BY <1>4 DEF finalizeModule, Working
      <3>2. task' = Idle /\ task.m \in Modules /\ UNCHANGED <<label, leaked>>
        BY <1>4, ReleaseFacts
      <3> QED BY <3>1, <3>2 DEF Idle, LabelWanted
    <2>1. CASE UNCHANGED <<module, cached, moduleEvents>> /\ queue \subseteq queue'
      <3>1. \A k \in Modules : Witness(k) => Witness(k)'
        BY <2>0, <2>1 DEF Witness
      <3> QED BY <2>0, <3>1, AccountFrame
    <2>2. CASE ~task.stale /\ WriteModule(task.m, Absent, queue)
      <3>1. queue \in SUBSET Modules
        BY <1>0 DEF TypeOK
      <3>2. /\ module' = [module EXCEPT ![task.m] = Absent] /\ queue \subseteq queue'
            /\ \A k \in Modules \ {task.m} : k \in moduleEvents' <=> k \in moduleEvents
        BY <1>0, <2>0, <2>2, <3>1, StartTypes, WriteModuleFacts
      <3>3. \A k \in Modules \ {task.m} : Witness(k) => Witness(k)'
        BY <1>0, <2>0, <3>2 DEF Witness, TypeOK
      <3> QED BY <2>0, <2>2, <3>3, AccountFrame
    <2> QED BY <1>4, <2>1, <2>2, ReleaseFacts
  <1>5. ASSUME setLabel
        PROVE  AccountInv'
    <2>1. \A k \in Modules : Witness(k) => Witness(k)'
      BY <1>5, SetLabelFacts DEF Witness
    <2>2. LabelWanted'
      BY <1>5, SetLabelFacts DEF LabelWanted
    <2>3. Accounted'
      <3> SUFFICES ASSUME NEW ns \in label' \ leaked'
                   PROVE  \E m \in Modules : NamespaceOf[m] = ns /\ Witness(m)'
        BY <1>5, SetLabelFacts DEF Accounted
      <3>1. CASE ns \in label
        <4>1. ns \in label \ leaked
          BY <1>5, <3>1, SetLabelFacts
        <4> QED BY <2>1, <4>1 DEF AccountInv, Accounted
      <3>2. CASE ns \notin label
        <4>1. ns = NamespaceOf[task.m] /\ ns \notin leaked
          BY <1>5, <3>2, SetLabelFacts
        <4>2. task.m \in Modules /\ Witness(task.m)
          BY <1>5, <4>1, SetLabelFacts DEF AccountInv, LabelWanted
        <4> QED BY <2>1, <4>1, <4>2
      <3> QED BY <3>1, <3>2
    <2> QED BY <2>2, <2>3 DEF AccountInv
  <1>6. ASSUME setFinalizerAndStatus
        PROVE  AccountInv'
    <2> DEFINE patched == [task.mod EXCEPT !.finalizer = TRUE]
    <2>0. /\ task.m \in Modules /\ task.step = "setFinalizer" /\ UNCHANGED <<label, leaked>>
          /\ patched \in ModuleObject
          /\ task' = Idle \/ task' = [task EXCEPT !.step = "handleMIC", !.mod = patched]
      BY <1>6, FinalizerFacts DEF End
    <2>1. task'.step \in {"idle", "handleMIC"}
      <3>1. CASE task' = Idle
        BY <3>1 DEF Idle
      <3>2. CASE task' = [task EXCEPT !.step = "handleMIC", !.mod = patched]
        BY <1>0, <3>2 DEF TaskObject
      <3> QED BY <2>0, <3>1, <3>2
    <2>2. \A k \in Modules : Witness(k) => Witness(k)'
      <3>1. CASE UNCHANGED <<module, moduleEvents>> /\ queue \subseteq queue'
        BY <2>0, <3>1 DEF Witness
      <3>2. CASE ~task.stale /\ WriteModule(task.m, patched, queue)
        <4>1. queue \in SUBSET Modules
          BY <1>0 DEF TypeOK
        <4>2. patched.phase = "live"
          BY <1>0, <2>0 DEF Knows, Starting, TaskObject, ModuleObject
        <4> HIDE DEF patched
        <4>3. /\ module' = [module EXCEPT ![task.m] = patched] /\ queue \subseteq queue'
              /\ \A k \in Modules \ {task.m} : k \in moduleEvents' <=> k \in moduleEvents
          BY <1>0, <2>0, <3>2, <4>1, WriteModuleFacts
        <4> QED BY <1>0, <2>0, <4>2, <4>3 DEF Witness, TypeOK
      <3> QED BY <1>6, <3>1, <3>2, FinalizerFacts DEF End
    <2>3. LabelWanted'
      BY <2>1 DEF LabelWanted
    <2> QED BY <2>0, <2>1, <2>2, <2>3, AccountFrame
  <1>7. ASSUME handleMIC
        PROVE  AccountInv'
    <2>1. task'.step \in {"idle", "schedule"}
      BY <1>7, MICFacts DEF Idle
    <2>2. \A k \in Modules : Witness(k) => Witness(k)'
      BY <1>7, MICFacts DEF Witness
    <2>3. LabelWanted'
      BY <2>1 DEF LabelWanted
    <2> QED BY <1>7, <2>1, <2>2, <2>3, MICFacts, AccountFrame
  <1>8. ASSUME updateModuleStatus
        PROVE  AccountInv'
    <2>0. /\ task'.step = "idle" /\ task.m \in Modules /\ UNCHANGED <<label, leaked>>
          /\ task.step = "schedule" /\ LabelWanted'
      BY <1>8, StatusFacts DEF Idle, updateModuleStatus, Working, LabelWanted
    <2>1. PICK new \in ModuleObject, waiting \in SUBSET Modules :
                 /\ queue \subseteq waiting /\ WriteModule(task.m, new, waiting)
                 /\ new.phase = module[task.m].phase
      BY <1>8, StatusFacts
    <2>2. /\ module' = [module EXCEPT ![task.m] = new]
          /\ \A k \in Modules \ {task.m} : k \in moduleEvents' <=> k \in moduleEvents
          /\ \/ new = module[task.m] /\ moduleEvents' = moduleEvents
             \/ task.m \in moduleEvents' \cup queue'
          /\ waiting \subseteq queue'
      BY <1>0, <2>0, <2>1, WriteModuleFacts
    <2>3. \A k \in Modules : Witness(k) => Witness(k)'
      BY <1>0, <2>0, <2>1, <2>2 DEF Witness, TypeOK
    <2> QED BY <2>0, <2>3, AccountFrame
  <1> QED BY <1>1, <1>2, <1>3, <1>4, <1>5, <1>6, <1>7, <1>8 DEF ModuleController

LEMMA AccountOthers ==
  ASSUME TypeInv, AccountInv, Next, ~ModuleController
  PROVE  AccountInv'
  <1>1. CASE CallFails
    <2>1. \A k \in Modules : Witness(k) => Witness(k)'
      BY <1>1, FailFrame DEF Witness
    <2>2. LabelWanted'
      BY <1>1, FailFrame DEF LabelWanted
    <2> QED BY <1>1, <2>1, <2>2, FailFrame, AccountFrame
  <1>2. CASE Bystander
    <2>1. \A k \in Modules : Witness(k) => Witness(k)'
      BY <1>2, BystanderFacts DEF Witness
    <2>2. LabelWanted'
      <3>1. task.step # "idle" => task.m \in Modules
        BY DEF TypeInv, TaskModule
      <3> QED BY <1>2, <2>1, <3>1, BystanderFacts DEF AccountInv, LabelWanted
    <2> QED BY <1>2, <2>1, <2>2, BystanderFacts, AccountFrame
  <1>3. ASSUME NEW m \in Modules, DeliverModule(m)
        PROVE  AccountInv'
    <2>1. \A k \in Modules : Witness(k) => Witness(k)'
      BY <1>3, DeliverFacts DEF Witness
    <2>2. LabelWanted'
      <3>1. task.step # "idle" => task.m \in Modules
        BY DEF TypeInv, TaskModule
      <3> QED BY <1>3, <2>1, <3>1, DeliverFacts DEF AccountInv, LabelWanted
    <2> QED BY <1>3, <2>1, <2>2, DeliverFacts, AccountFrame
  <1>4. ASSUME NEW m \in Modules, CreateModule(m) \/ EditModule(m) \/ DeleteModule(m)
        PROVE  AccountInv'
    <2>1. \A k \in Modules : Witness(k) => Witness(k)' \/ NamespaceOf[k] \in leaked'
      <3> SUFFICES ASSUME NEW k \in Modules, Witness(k)
                   PROVE  Witness(k)' \/ NamespaceOf[k] \in leaked'
        OBVIOUS
      <3>1. CASE k # m
        BY <1>4, <3>1, UserFrame DEF Witness
      <3>2. CASE k = m
        BY <1>4, <3>2, UserFrame DEF Witness
      <3> QED BY <3>1, <3>2
    <2>2. LabelWanted'
      <3>1. task.step # "idle" => task.m \in Modules
        BY DEF TypeInv, TaskModule
      <3> QED BY <1>4, <2>1, <3>1, UserFrame DEF AccountInv, LabelWanted
    <2>3. label' = label /\ leaked \subseteq leaked'
      BY <1>4, UserFacts, UserFrame
    <2>4. task'.step = "finalizeModule" /\ ~task'.stale
              => task.step = "finalizeModule" /\ ~task.stale /\ task'.m = task.m
      BY <1>4, UserFrame
    <2> QED BY <2>1, <2>2, <2>3, <2>4, AccountFrame
  <1> QED BY <1>1, <1>2, <1>3, <1>4, Steps_of_Next

LEMMA AccountInvariant == Spec => []AccountInv
  <1>1. Init => AccountInv
    BY DEF Init, Idle, AccountInv, Accounted, LabelWanted
  <1>2. ASSUME TypeInv, CopyInv, AccountInv, [Next]_vars
        PROVE  AccountInv'
    <2>1. CASE Next
      BY <1>2, <2>1, AccountReconcile, AccountOthers
    <2>2. CASE UNCHANGED vars
      BY <1>2, <2>2 DEF vars, objects, events, history, AccountInv, Accounted, LabelWanted, Witness
    <2> QED BY <1>2, <2>1, <2>2
  <1> QED BY <1>1, <1>2, ProtectInvariant, PTL DEF Spec

(* When the controller rests, no label is left in a namespace without a    *)
(* live Module, also when several are deleted together and whatever the    *)
(* cached list of Modules shows; only a Module deleted before its          *)
(* finalizer, or a cached Namespace without the label, leaves one.         *)
THEOREM ReleasedWhenUnused == Spec => []NamespaceReleased
  <1>1. AccountInv => NamespaceReleased
    BY DEF AccountInv, Accounted, Witness, NamespaceReleased, Quiet, Idle
  <1> QED BY <1>1, AccountInvariant, PTL

-----------------------------------------------------------------------------
(* Entries and finalizers                                                  *)

(* An entry, or what it loaded, is in use and holds the finalizer.         *)
Held ==
    \A n \in Nodes, m \in Modules :
        nmc[n].spec[m] # None \/ nmc[n].status[m] # None
            => \/ <<n, m>> \in misjudged
               \/ m \in nmc[n].inUse /\ module[m].phase # "none" /\ module[m].finalizer

(* A step that leaves the NMCs, what went wrong with them, and finalizers. *)
LEMMA HeldFrame ==
  ASSUME Held, UNCHANGED <<nmc, misjudged>>,
         \A m \in Modules : module[m].phase # "none" /\ module[m].finalizer
                                => module'[m].phase # "none" /\ module'[m].finalizer
  PROVE  Held'
  BY DEF Held

(* What a patch does to the entries of a node, be its copy old or not.     *)
LEMMA PatchHeld ==
  ASSUME TypeOK, Held, NEW n \in Nodes, NEW m \in Modules, NEW image \in Images \cup {None},
         NEW want \in NMCObject, PatchNMC(n, m, want, image), UNCHANGED module,
         want.spec = [cached.nmc[n].spec EXCEPT ![m] = image],
         image # None => /\ m \in want.inUse
                         /\ module[m].phase # "none" /\ module[m].finalizer
  PROVE  Held'
  <1> DEFINE new == Patched(nmc[n], cached.nmc[n], want)
  <1>1. nmc[n] \in NMCObject /\ cached.nmc[n] \in NMCObject
    BY DEF TypeOK
  <1>2. nmc' = [nmc EXCEPT ![n] = new]
    BY DEF PatchNMC, WriteNMC
  <1>3. new.status = nmc[n].status /\ nmc[n].inUse \subseteq new.inUse
    BY <1>1 DEF Patched, NMCObject
  <1>4. cached.nmc[n] = nmc[n] => /\ new.spec = [nmc[n].spec EXCEPT ![m] = image]
                                 /\ want.inUse \subseteq new.inUse
    BY <1>1 DEF Patched, NMCObject
  <1>5. /\ misjudged \ {<<n, m>>} \subseteq misjudged'
        /\ <<n, m>> \in misjudged => \/ <<n, m>> \in misjudged'
                                     \/ image # None /\ new.spec[m] = image /\ m \in new.inUse
        /\ cached.nmc[n] # nmc[n] =>
              /\ \A k \in Modules \ {m} : new.spec[k] # nmc[n].spec[k] => <<n, k>> \in misjudged'
              /\ \/ <<n, m>> \in misjudged'
                 \/ new.spec[m] = image /\ (image # None => m \in new.inUse)
    BY DEF PatchNMC, Judge
  <1> HIDE DEF new
  <1> SUFFICES ASSUME NEW j \in Nodes, NEW k \in Modules,
                      nmc'[j].spec[k] # None \/ nmc'[j].status[k] # None,
                      <<j, k>> \notin misjudged'
               PROVE  k \in nmc'[j].inUse /\ module[k].phase # "none" /\ module[k].finalizer
    BY DEF Held
  <1>6. CASE j # n
    BY <1>2, <1>5, <1>6 DEF Held, TypeOK
  <1>7. CASE j = n /\ k # m
    <2>1. nmc'[n] = new
      BY <1>2 DEF TypeOK
    <2>2. new.spec[k] = nmc[n].spec[k] /\ <<n, k>> \notin misjudged
      BY <1>1, <1>4, <1>5, <1>7 DEF NMCObject
    <2> QED BY <1>3, <1>7, <2>1, <2>2 DEF Held
  <1>8. CASE j = n /\ k = m
    <2>1. nmc'[n] = new
      BY <1>2 DEF TypeOK
    <2>2. new.spec[m] = image /\ (image # None => m \in new.inUse)
      BY <1>1, <1>4, <1>5, <1>8 DEF NMCObject
    <2>3. CASE image # None
      BY <1>8, <2>1, <2>2, <2>3
    <2>4. CASE image = None
      BY <1>3, <1>5, <1>8, <2>1, <2>2, <2>4 DEF Held
    <2> QED BY <2>3, <2>4
  <1> QED BY <1>6, <1>7, <1>8

LEMMA HeldReconcile ==
  ASSUME TypeInv, CopyInv, Held, ModuleController
  PROVE  Held'
  <1>0. TypeOK /\ task \in TaskObject /\ Knows /\ \A k \in Modules : CopyOf(k)
    BY DEF TypeInv, TypeOK, TaskObject, CopyInv
  <1>1. ASSUME NEW m \in Modules, StartReconcile(m)
        PROVE  Held'
    BY <1>1, StartFacts, HeldFrame
  <1>2. ASSUME tryRemovingLabel
        PROVE  Held'
    BY <1>2, RemoveFacts, HeldFrame
  <1>3. ASSUME NEW n \in Nodes, FinalizeNode(n) \/ ScheduleNode(n)
        PROVE  Held'
    <2>1. task.m \in Modules /\ UNCHANGED module /\ cached.nmc[n] \in NMCObject
      BY <1>0, <1>3, NodeStepFacts DEF TypeOK
    <2>2. CASE UNCHANGED <<nmc, cached, nmcEvents, queue, misjudged>>
      BY <2>1, <2>2, HeldFrame
    <2>3. CASE /\ task.step = "schedule" /\ task.targeted[n] \in Images \cup {None}
               /\ enableModuleOnNode(n, task.m, task.targeted[n])
      <3> DEFINE want == [cached.nmc[n] EXCEPT !.spec[task.m] = task.targeted[n],
                                               !.configured = @ \cup {task.m},
                                               !.inUse = @ \cup {task.m}]
      <3>1. want \in NMCObject
        BY <1>0, <2>1, <2>3, EntryWriteTypes
      <3>2. /\ want.spec = [cached.nmc[n].spec EXCEPT ![task.m] = task.targeted[n]]
            /\ task.m \in want.inUse
        BY <2>1 DEF NMCObject
      <3>3. PatchNMC(n, task.m, want, task.targeted[n])
        BY <2>3 DEF enableModuleOnNode
      <3>4. module[task.m].phase # "none" /\ module[task.m].finalizer
        BY <1>0, <2>3 DEF Knows, Scheduling
      <3> HIDE DEF want
      <3> QED BY <1>0, <2>1, <2>3, <3>1, <3>2, <3>3, <3>4, PatchHeld
    <2>4. CASE removeModuleFromNMC(n, task.m)
      <3> DEFINE want == [cached.nmc[n] EXCEPT !.spec[task.m] = None, !.configured = @ \ {task.m}]
      <3>0. None \in Images \cup {None}
        OBVIOUS
      <3>1. want \in NMCObject
        BY <1>0, <2>1, <3>0, EntryWriteTypes
      <3>2. want.spec = [cached.nmc[n].spec EXCEPT ![task.m] = None]
        BY <2>1 DEF NMCObject
      <3>3. PatchNMC(n, task.m, want, None)
        BY <2>4 DEF removeModuleFromNMC
      <3> HIDE DEF want
      <3> QED BY <1>0, <2>1, <3>0, <3>1, <3>2, <3>3, PatchHeld
    <2> QED BY <1>3, <2>2, <2>3, <2>4, NodeStepFacts
  <1>4. ASSUME finalizeModule
        PROVE  Held'
    <2>0. task.m \in Modules /\ UNCHANGED nmc
      BY <1>4, ReleaseFacts
    <2>1. CASE UNCHANGED <<module, misjudged>>
      BY <2>0, <2>1, HeldFrame
    <2>2. CASE /\ WriteModule(task.m, Absent, queue)
               /\ misjudged' = misjudged
                   \cup ({n \in Nodes : task.m \in nmc[n].inUse \ cached.nmc[n].inUse} \X {task.m})
               /\ \A n \in Nodes : task.m \notin cached.nmc[n].inUse
      <3>1. module' = [module EXCEPT ![task.m] = Absent]
        BY <2>2 DEF WriteModule
      <3> SUFFICES ASSUME NEW n \in Nodes, NEW k \in Modules,
                          nmc[n].spec[k] # None \/ nmc[n].status[k] # None,
                          <<n, k>> \notin misjudged'
                   PROVE  k \in nmc[n].inUse /\ module'[k].phase # "none" /\ module'[k].finalizer
        BY <2>0 DEF Held
      <3>2. <<n, k>> \notin misjudged
        BY <2>2
      <3>3. k \in nmc[n].inUse /\ module[k].phase # "none" /\ module[k].finalizer
        BY <3>2 DEF Held
      <3>4. k # task.m
        BY <2>2, <3>3
      <3>5. module'[k] = module[k]
        BY <1>0, <2>0, <3>1, <3>4 DEF TypeOK
      <3> QED BY <3>3, <3>5
    <2> QED BY <1>4, <2>1, <2>2, ReleaseFacts
  <1>5. ASSUME setLabel
        PROVE  Held'
    BY <1>5, SetLabelFacts, HeldFrame
  <1>6. ASSUME setFinalizerAndStatus
        PROVE  Held'
    <2> DEFINE patched == [task.mod EXCEPT !.finalizer = TRUE]
    <2>0. /\ task.m \in Modules /\ task.step = "setFinalizer" /\ UNCHANGED <<nmc, misjudged>>
          /\ module' = module \/ module' = [module EXCEPT ![task.m] = patched]
      BY <1>6, FinalizerFacts DEF WriteModule
    <2>1. patched.phase = "live" /\ patched.finalizer
      BY <1>0, <2>0 DEF Knows, Starting, TaskObject, ModuleObject
    <2> HIDE DEF patched
    <2>2. \A k \in Modules : module[k].phase # "none" /\ module[k].finalizer
                                 => module'[k].phase # "none" /\ module'[k].finalizer
      BY <1>0, <2>0, <2>1 DEF TypeOK
    <2> QED BY <2>0, <2>2, HeldFrame
  <1>7. ASSUME handleMIC
        PROVE  Held'
    BY <1>7, MICFacts, HeldFrame
  <1>8. ASSUME updateModuleStatus
        PROVE  Held'
    <2>0. task.m \in Modules /\ UNCHANGED <<nmc, misjudged>>
      BY <1>8, StatusFacts
    <2>1. PICK new \in ModuleObject :
                 /\ module' = [module EXCEPT ![task.m] = new]
                 /\ new.phase = module[task.m].phase /\ new.finalizer = module[task.m].finalizer
      BY <1>8, StatusFacts DEF WriteModule
    <2>2. \A k \in Modules : module[k].phase # "none" /\ module[k].finalizer
                                 => module'[k].phase # "none" /\ module'[k].finalizer
      BY <1>0, <2>0, <2>1 DEF TypeOK
    <2> QED BY <2>0, <2>2, HeldFrame
  <1> QED BY <1>1, <1>2, <1>3, <1>4, <1>5, <1>6, <1>7, <1>8 DEF ModuleController

LEMMA HeldOthers ==
  ASSUME TypeInv, Held, Next, ~ModuleController
  PROVE  Held'
  <1>0. TypeOK
    BY DEF TypeInv
  <1>1. CASE CallFails
    BY <1>1, FailFrame, HeldFrame
  <1>2. CASE Bystander
    <2>1. UNCHANGED <<module, misjudged>>
      BY <1>2, BystanderFacts
    <2>2. CASE UNCHANGED nmc
      BY <2>1, <2>2, HeldFrame
    <2>3. ASSUME NEW n \in Nodes, NEW m \in Modules,
                 nmc' = [nmc EXCEPT ![n].status[m] = nmc[n].spec[m]]
          PROVE  Held'
      <3>1. /\ \A j \in Nodes : nmc'[j].spec = nmc[j].spec /\ nmc'[j].inUse = nmc[j].inUse
            /\ \A j \in Nodes, k \in Modules :
                  nmc'[j].status[k] = nmc[j].status[k] \/ nmc'[j].status[k] = nmc[j].spec[k]
        BY <1>0, <2>3 DEF TypeOK, NMCObject
      <3> QED BY <2>1, <3>1 DEF Held
    <2>4. ASSUME NEW n \in Nodes, NEW m \in Modules,
                 nmc[n].spec[m] = None, nmc[n].status[m] = None,
                 nmc' = [nmc EXCEPT ![n].inUse = @ \ {m}]
          PROVE  Held'
      <3>1. \A j \in Nodes : /\ nmc'[j].spec = nmc[j].spec /\ nmc'[j].status = nmc[j].status
                             /\ \A k \in Modules : k \in nmc[j].inUse /\ <<j, k>> # <<n, m>>
                                                       => k \in nmc'[j].inUse
        BY <1>0, <2>4 DEF TypeOK, NMCObject
      <3> QED BY <2>1, <2>4, <3>1 DEF Held
    <2> QED BY <1>2, <2>2, <2>3, <2>4, BystanderFacts
  <1>3. ASSUME NEW m \in Modules, DeliverModule(m)
        PROVE  Held'
    BY <1>3, DeliverFacts, HeldFrame
  <1>4. ASSUME NEW m \in Modules, CreateModule(m) \/ EditModule(m) \/ DeleteModule(m)
        PROVE  Held'
    <2>1. \A k \in Modules : module[k].phase # "none" /\ module[k].finalizer
                                 => module'[k].phase # "none" /\ module'[k].finalizer
      BY <1>4, UserFrame
    <2> QED BY <1>4, <2>1, UserFacts, HeldFrame
  <1> QED BY <1>1, <1>2, <1>3, <1>4, Steps_of_Next

(* An NMC holds no Module that does not exist, for the in-use label holds  *)
(* the finalizer; only an entry that a patch from an old copy of the NMC   *)
(* wrote, or the in-use label such a copy lacked, can outlive its Module.  *)
THEOREM NoEntryOutlivesItsModule == Spec => []NoOrphanEntries
  <1>1. Init => Held
    BY DEF Init, EmptyNMC, Held
  <1>2. ASSUME TypeInv, CopyInv, Held, [Next]_vars
        PROVE  Held'
    <2>1. CASE Next
      BY <1>2, <2>1, HeldReconcile, HeldOthers
    <2>2. CASE UNCHANGED vars
      BY <1>2, <2>2 DEF vars, objects, history, Held
    <2> QED BY <1>2, <2>1, <2>2
  <1>3. Held => NoOrphanEntries
    BY DEF Held, NoOrphanEntries
  <1> QED BY <1>1, <1>2, <1>3, ProtectInvariant, PTL DEF Spec

=============================================================================
