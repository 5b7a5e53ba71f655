------------------------- MODULE ScheduledPodsProofs -------------------------
(***************************************************************************)
(* Proofs about ScheduledPods for any nodes, versions, DeviceClasses and   *)
(* combinations of sections: nothing outlives the Module, and at rest      *)
(* every section is deployed or gone and counted as it is.                 *)
(***************************************************************************)
EXTENDS ScheduledPods, FiniteSetTheorems, TLAPS

Phases == {"none", "live", "deleting"}

(* The fields of the objects; what counts and status hold is left open.    *)
ModuleShape(m) ==
    m \in [phase: Phases, version: Versions, sections: SUBSET Roles, classes: SUBSET Classes,
           finalizers: SUBSET Roles, matching: {m.matching}, status: {m.status}]

NodeShape ==
    /\ node = [n \in Nodes |-> node[n]]
    /\ \A n \in Nodes :
          node[n] \in [selected: BOOLEAN, tainted: BOOLEAN, schedule: {node[n].schedule},
                       target: SUBSET Roles]

SetShape(d) == d \in [exists: BOOLEAN, desired: Nat, available: {d.available}]

SetsShape ==
    /\ daemonSet = [r \in Roles |-> daemonSet[r]]
    /\ \A r \in Roles : /\ daemonSet[r] = [v \in Versions |-> daemonSet[r][v]]
                        /\ \A v \in Versions : SetShape(daemonSet[r][v])

TaskShape ==
    /\ task = [r \in Roles |-> task[r]]
    /\ \A r \in Roles :
          /\ task[r] \in [step: Steps, mod: {task[r].mod}, existing: {task[r].existing},
                          existingClasses: {task[r].existingClasses}]
          /\ ModuleShape(task[r].mod)

Shape ==
    /\ ModuleShape(module) /\ NodeShape /\ SetsShape /\ TaskShape
    /\ classes \subseteq Classes /\ queue \subseteq Roles

-----------------------------------------------------------------------------
(* Nothing outlives the Module                                             *)

(* Nothing of the role is in the cluster.                                  *)
Clean(r) ==
    /\ \A v \in Versions : ~daemonSet[r][v].exists
    /\ \A n \in Nodes : r \notin node[n].target
    /\ r = "dra" => classes = {}

Deploying == {"targetLabels", "daemonSets", "deviceClasses", "updateStatus"}

(* A finalizer is only removed by the controller it belongs to, so the     *)
(* Module has it as long as that controller's copy has it, or deploys, or  *)
(* has left something in the cluster.                                      *)
HeldInv(r) ==
    /\ r \in task[r].mod.finalizers => r \in module.finalizers
    /\ task[r].step = "removeTargetLabels" /\ r \in module.finalizers => r \in task[r].mod.finalizers
    /\ task[r].step = "setFinalizer" => task[r].mod.phase # "none"
    /\ task[r].step \in Deploying => r \in module.finalizers
    /\ task[r].step = "deleteResources" => \A n \in Nodes : r \notin node[n].target
    /\ ~Clean(r) => r \in module.finalizers

(* An absent Module has no finalizer.                                      *)
Freed == module.phase = "none" => module.finalizers = {}

LeftInv == Freed /\ \A r \in Roles : HeldInv(r)

-----------------------------------------------------------------------------
(* Sections at rest                                                        *)

Finalizing == {"removeTargetLabels", "deleteResources", "clearStatus"}

(* Unless its controller has the Module queued, a Reconcile works with the *)
(* Module and the DaemonSets of now.                                       *)
ModuleCurrent(r) ==
    /\ task[r].step \in Finalizing => ~Wanted(r)
    /\ task[r].step \in Deploying \cup {"setFinalizer"} =>
          /\ Wanted(r)
          /\ task[r].mod.version = module.version /\ task[r].mod.classes = module.classes

ListCurrent(r) == task[r].step \in {"targetLabels", "daemonSets"} => task[r].existing = daemonSet[r]

(* What is not wanted is gone after the finalizer's steps.                 *)
Swept(r) == ~Wanted(r) /\ task[r].step \in {"clearStatus", "idle"} => Clean(r)

(* What is wanted is there after the step that makes it.                   *)
Targets ==
    \A n \in Nodes : node[n].selected => ("dra" \in node[n].target <=> ~node[n].tainted)

Sets(r) ==
    /\ daemonSet[r][module.version].exists
    /\ \A v \in Versions \ {module.version} : daemonSet[r][v].exists => daemonSet[r][v].desired > 0

Made(r) ==
    Wanted(r) =>
        /\ task[r].step \in {"deviceClasses", "updateStatus", "idle"} => Sets(r)
        /\ r = "dra" /\ task[r].step \in {"daemonSets", "deviceClasses", "updateStatus", "idle"} => Targets
        /\ r = "dra" /\ task[r].step \in {"updateStatus", "idle"} => classes = module.classes

(* Nobody else writes DeviceClasses.                                       *)
ClassesCurrent(r) ==
    r = "dra" /\ task[r].step \in {"targetLabels", "daemonSets", "deviceClasses"} =>
        task[r].existingClasses = classes

SectionInv(r) ==
    /\ ClassesCurrent(r)
    /\ r \notin queue => ModuleCurrent(r) /\ ListCurrent(r) /\ Swept(r) /\ Made(r)

RestInv == \A r \in Roles : SectionInv(r)

-----------------------------------------------------------------------------
(* The ends of the steps                                                   *)

LEMMA AbsentShape == ModuleShape(Absent) /\ Absent.finalizers = {} /\ Absent.phase = "none"
  <1>1. 1 \in Versions
    BY ScheduledPodsAssumption DEF Versions
  <1> QED BY <1>1 DEF Absent, ModuleShape, Phases

LEMMA IdleShape ==
  /\ Idle \in [step: Steps, mod: {Idle.mod}, existing: {Idle.existing},
               existingClasses: {Idle.existingClasses}]
  /\ Idle.step = "idle" /\ Idle.mod = Absent
  BY DEF Idle, Steps

(* The Reconcile of one role does not touch the other's.                   *)
Alone(r) == \A s \in Roles : s # r => task'[s] = task[s]

SameTask(r) ==
    /\ task'[r].mod = task[r].mod /\ task'[r].existing = task[r].existing
    /\ task'[r].existingClasses = task[r].existingClasses

LEMMA TaskWritten ==
  ASSUME TaskShape, NEW r \in Roles, NEW t, task' = [task EXCEPT ![r] = t],
         t \in [step: Steps, mod: {t.mod}, existing: {t.existing}, existingClasses: {t.existingClasses}],
         ModuleShape(t.mod)
  PROVE  TaskShape' /\ Alone(r) /\ task'[r] = t
  <1>1. /\ task' = [s \in Roles |-> task'[s]] /\ task'[r] = t
        /\ \A s \in Roles : s # r => task'[s] = task[s]
    BY DEF TaskShape
  <1> QED BY <1>1 DEF TaskShape, Alone

LEMMA StepEffect ==
  ASSUME TaskShape, NEW r \in Roles, NEW st \in Steps, Step(r, st)
  PROVE  TaskShape' /\ Alone(r) /\ SameTask(r) /\ task'[r].step = st
  <1> DEFINE t == [task[r] EXCEPT !.step = st]
  <1>1. task' = [task EXCEPT ![r] = t]
    BY DEF Step
  <1>2. /\ t \in [step: Steps, mod: {t.mod}, existing: {t.existing}, existingClasses: {t.existingClasses}]
        /\ t.step = st /\ t.mod = task[r].mod /\ t.existing = task[r].existing
        /\ t.existingClasses = task[r].existingClasses
    BY DEF TaskShape
  <1> HIDE DEF t
  <1>3. ModuleShape(t.mod)
    BY <1>2 DEF TaskShape
  <1> QED BY <1>1, <1>2, <1>3, TaskWritten DEF SameTask

LEMMA EndEffect ==
  ASSUME TaskShape, NEW r \in Roles, NEW failed, NEW changed, End(r, failed, changed)
  PROVE  /\ TaskShape' /\ Alone(r) /\ task'[r] = Idle
         /\ queue' = queue \cup changed \cup (IF failed THEN {r} ELSE {})
  <1>1. ModuleShape(Idle.mod)
    BY AbsentShape, IdleShape
  <1> QED BY <1>1, IdleShape, TaskWritten DEF End

LEMMA LoopEffect ==
  ASSUME TaskShape, NEW r \in Roles, NEW complete \in BOOLEAN, NEW next \in Steps, NEW changed,
         Loop(r, complete, next, changed)
  PROVE  /\ TaskShape' /\ Alone(r)
         /\ \/ complete /\ SameTask(r) /\ task'[r].step = next /\ queue' = queue \cup changed
            \/ ~complete /\ task'[r] = Idle /\ queue' = queue \cup changed \cup {r}
  <1>1. CASE complete
    BY <1>1, StepEffect DEF Loop
  <1>2. CASE ~complete
    BY <1>2, EndEffect DEF Loop
  <1> QED BY <1>1, <1>2

LEMMA EventsRoles == NodesEvents(node') \subseteq Roles
  BY DEF NodesEvents, NodeEvents, Roles

-----------------------------------------------------------------------------
(* What a step does to the part of a role that it does not belong to       *)

Frame(r) ==
    /\ task'[r] = task[r]
    /\ r \in queue => r \in queue'
    /\ module' = module \/ r \in queue'
    /\ r \in module'.finalizers <=> r \in module.finalizers
    /\ daemonSet'[r] = daemonSet[r] \/ r \in queue'
    /\ \A v \in Versions : daemonSet'[r][v].exists = daemonSet[r][v].exists
    /\ r = "dra" => classes' = classes
    /\ \A n \in Nodes : r \in node'[n].target <=> r \in node[n].target
    /\ r = "dra" /\ module.phase # "none" /\ r \notin queue' =>
          \A n \in Nodes : node'[n].selected \/ node[n].selected =>
              node'[n].selected = node[n].selected /\ node'[n].tainted = node[n].tainted

LEMMA FrameKeeps ==
  ASSUME NEW r \in Roles, Frame(r), HeldInv(r), SectionInv(r)
  PROVE  HeldInv(r)' /\ SectionInv(r)'
  <1>1. Clean(r)' <=> Clean(r)
    BY DEF Frame, Clean
  <1>2. HeldInv(r)'
    BY <1>1 DEF Frame, HeldInv
  <1>3. ClassesCurrent(r)'
    BY DEF Frame, SectionInv, ClassesCurrent
  <1> SUFFICES ASSUME r \notin queue'
               PROVE  ModuleCurrent(r)' /\ ListCurrent(r)' /\ Swept(r)' /\ Made(r)'
    BY <1>2, <1>3 DEF SectionInv
  <1>4. /\ module' = module /\ daemonSet'[r] = daemonSet[r] /\ task'[r] = task[r]
        /\ ModuleCurrent(r) /\ ListCurrent(r) /\ Swept(r) /\ Made(r)
    BY DEF Frame, SectionInv
  <1>5. Wanted(r)' <=> Wanted(r)
    BY <1>4 DEF Wanted
  <1>6. ModuleCurrent(r)' /\ ListCurrent(r)'
    BY <1>4, <1>5 DEF ModuleCurrent, ListCurrent
  <1>7. Swept(r)'
    BY <1>1, <1>4, <1>5 DEF Swept
  <1>8. Made(r)'
    <2> SUFFICES ASSUME Wanted(r) PROVE Made(r)'
      BY <1>5 DEF Made
    <2>1. module.phase # "none"
      BY DEF Wanted
    <2>2. Sets(r)' <=> Sets(r)
      BY <1>4 DEF Sets
    <2>3. r = "dra" => (Targets' <=> Targets)
      BY <2>1 DEF Frame, Targets
    <2> QED BY <1>4, <1>5, <2>2, <2>3 DEF Made, Frame
  <1> QED BY <1>6, <1>7, <1>8

(* The controller of r has taken a step that leaves module and nodes, and  *)
(* the other role's DaemonSets, alone.                                     *)
LEMMA OtherFrame ==
  ASSUME NEW r \in Roles, NEW s \in Roles, s # r, Alone(r),
         s \in queue => s \in queue',
         module' = module \/ s \in queue',
         s \in module'.finalizers <=> s \in module.finalizers,
         daemonSet'[s] = daemonSet[s],
         s = "dra" => classes' = classes,
         \A n \in Nodes : /\ s \in node'[n].target <=> s \in node[n].target
                          /\ node'[n].selected = node[n].selected /\ node'[n].tainted = node[n].tainted
  PROVE  Frame(s)
  BY DEF Frame, Alone

-----------------------------------------------------------------------------
(* The steps of a controller                                               *)

(* What each of them has to show.                                          *)
Kept(r) ==
    /\ Shape' /\ Freed' /\ HeldInv(r)' /\ SectionInv(r)'
    /\ \A s \in Roles : s # r => Frame(s)

LEMMA StartKeeps ==
  ASSUME Shape, LeftInv, RestInv, NEW r \in Roles, StartReconcile(r)
  PROVE  Kept(r)
  <1>0. /\ UNCHANGED <<module, node, daemonSet, classes>> /\ queue' = queue \ {r}
        /\ TaskShape /\ HeldInv(r) /\ SectionInv(r) /\ Freed /\ ModuleShape(module)
    BY DEF StartReconcile, Shape, LeftInv, RestInv
  <1> DEFINE t == IF module.phase = "none" \/ NothingOf(r) THEN Idle
                  ELSE [Idle EXCEPT !.step = IF module.phase = "live" /\ r \in module.sections
                                             THEN "setFinalizer" ELSE "removeTargetLabels",
                                    !.mod = module]
  <1>1. task' = [task EXCEPT ![r] = t]
    BY DEF StartReconcile
  <1>2. \/ (module.phase = "none" \/ NothingOf(r)) /\ t = Idle
        \/ ~Wanted(r) /\ t = [Idle EXCEPT !.step = "removeTargetLabels", !.mod = module]
        \/ Wanted(r) /\ t = [Idle EXCEPT !.step = "setFinalizer", !.mod = module]
    BY <1>0 DEF Wanted, ModuleShape, Phases, NothingOf
  <1> HIDE DEF t
  <1>3. /\ t \in [step: Steps, mod: {t.mod}, existing: {t.existing}, existingClasses: {t.existingClasses}]
        /\ t.mod \in {module, Absent}
        /\ \/ (module.phase = "none" \/ NothingOf(r)) /\ t.step = "idle" /\ t.mod = Absent
           \/ ~Wanted(r) /\ t.step = "removeTargetLabels" /\ t.mod = module
           \/ Wanted(r) /\ t.step = "setFinalizer" /\ t.mod = module
    BY <1>2, IdleShape DEF Steps
  <1>4. TaskShape' /\ Alone(r) /\ task'[r] = t
    <2>1. ModuleShape(t.mod)
      BY <1>0, <1>3, AbsentShape
    <2> QED BY <1>0, <1>1, <1>3, <2>1, TaskWritten
  <1>5. Shape' /\ Freed'
    BY <1>0, <1>4 DEF Shape, Freed, ModuleShape, NodeShape, SetsShape, SetShape
  <1>6. \A s \in Roles : s # r => Frame(s)
    BY <1>0, <1>4, OtherFrame
  <1>7. Clean(r)' <=> Clean(r)
    BY <1>0 DEF Clean
  <1>8. HeldInv(r)'
    <2>1. Wanted(r) => module.phase # "none"
      BY DEF Wanted
    <2> QED BY <1>0, <1>3, <1>4, <1>7, <2>1, AbsentShape DEF HeldInv, Deploying
  <1>9. SectionInv(r)'
    <2>1. Wanted(r)' <=> Wanted(r)
      BY <1>0 DEF Wanted
    <2>2. CASE t.step = "idle"
      <3>1. ~Wanted(r) /\ r \notin module.finalizers
        BY <1>0, <1>3, <2>2 DEF NothingOf, Wanted, Freed
      <3>2. Clean(r)
        BY <1>0, <3>1 DEF HeldInv
      <3> QED BY <1>4, <1>7, <2>1, <2>2, <3>1, <3>2
              DEF SectionInv, ClassesCurrent, ModuleCurrent, ListCurrent, Swept, Made, Finalizing, Deploying
    <2>3. CASE t.step = "removeTargetLabels"
      BY <1>3, <1>4, <2>1, <2>3
      DEF SectionInv, ClassesCurrent, ModuleCurrent, ListCurrent, Swept, Made, Finalizing, Deploying
    <2>4. CASE t.step = "setFinalizer"
      BY <1>0, <1>3, <1>4, <2>1, <2>4
      DEF SectionInv, ClassesCurrent, ModuleCurrent, ListCurrent, Swept, Made, Finalizing, Deploying
    <2> QED BY <1>3, <2>2, <2>3, <2>4
  <1> QED BY <1>5, <1>6, <1>8, <1>9 DEF Kept

(* A node whose target labels change.                                      *)
LEMMA TargetWritten ==
  ASSUME NodeShape, NEW n \in Nodes, NEW target \in SUBSET Roles, NEW new,
         new = [node[n] EXCEPT !.target = target]
  PROVE  /\ new \in [selected: BOOLEAN, tainted: BOOLEAN, schedule: {new.schedule}, target: SUBSET Roles]
         /\ new.target = target /\ new.selected = node[n].selected /\ new.tainted = node[n].tainted
  BY DEF NodeShape

LEMMA UntargetKeeps ==
  ASSUME Shape, LeftInv, RestInv, NEW r \in Roles, removeTargetLabels(r)
  PROVE  Kept(r)
  <1>0. /\ UNCHANGED <<module, daemonSet, classes>> /\ task[r].step = "removeTargetLabels"
        /\ TaskShape /\ HeldInv(r) /\ SectionInv(r) /\ Freed /\ NodeShape /\ queue \subseteq Roles
    BY DEF removeTargetLabels, Working, Shape, LeftInv, RestInv
  <1>1. CASE NothingToFinalize(r)
    <2>1. Step(r, "clearStatus") /\ UNCHANGED <<node, queue>>
      BY <1>1 DEF removeTargetLabels
    <2>2. TaskShape' /\ Alone(r) /\ SameTask(r) /\ task'[r].step = "clearStatus"
      BY <1>0, <2>1, StepEffect DEF Steps
    <2>3. Shape' /\ Freed'
      BY <1>0, <2>1, <2>2 DEF Shape, Freed, ModuleShape, NodeShape, SetsShape, SetShape
    <2>4. \A s \in Roles : s # r => Frame(s)
      BY <1>0, <2>1, <2>2, OtherFrame
    <2>5. Clean(r)
      BY <1>0, <1>1 DEF HeldInv, NothingToFinalize
    <2>6. Clean(r)' /\ (Wanted(r)' <=> Wanted(r))
      BY <1>0, <2>1, <2>5 DEF Clean, Wanted
    <2>7. HeldInv(r)'
      BY <1>0, <2>2, <2>6 DEF HeldInv, Deploying, SameTask
    <2>8. SectionInv(r)'
      BY <1>0, <2>1, <2>2, <2>6
      DEF SectionInv, ClassesCurrent, ModuleCurrent, ListCurrent, Swept, Made, Finalizing, Deploying
    <2> QED BY <2>3, <2>4, <2>7, <2>8 DEF Kept
  <1>2. CASE ~NothingToFinalize(r)
    <2>1. PICK done \in SUBSET Nodes :
             /\ node' = [n \in Nodes |-> IF n \in done THEN Untargeted(n, r) ELSE node[n]]
             /\ Loop(r, done = Nodes, "deleteResources", NodesEvents(node'))
      BY <1>2 DEF removeTargetLabels
    <2>2. /\ TaskShape' /\ Alone(r)
          /\ \/ done = Nodes /\ SameTask(r) /\ task'[r].step = "deleteResources"
                /\ queue' = queue \cup NodesEvents(node')
             \/ done # Nodes /\ task'[r] = Idle /\ queue' = queue \cup NodesEvents(node') \cup {r}
      <3> DEFINE complete == done = Nodes
                 changed == NodesEvents(node')
      <3>1. Loop(r, complete, "deleteResources", changed) /\ complete \in BOOLEAN
            /\ "deleteResources" \in Steps
        BY <2>1 DEF Steps
      <3>2. complete <=> done = Nodes
        OBVIOUS
      <3> HIDE DEF complete, changed
      <3>3. /\ TaskShape' /\ Alone(r)
            /\ \/ complete /\ SameTask(r) /\ task'[r].step = "deleteResources" /\ queue' = queue \cup changed
               \/ ~complete /\ task'[r] = Idle /\ queue' = queue \cup changed \cup {r}
        BY <1>0, <3>1, LoopEffect
      <3> QED BY <3>2, <3>3 DEF changed
    <2>3. ASSUME NEW n \in Nodes
          PROVE  /\ node'[n] \in [selected: BOOLEAN, tainted: BOOLEAN, schedule: {node'[n].schedule},
                                  target: SUBSET Roles]
                 /\ node'[n].target \in {node[n].target, node[n].target \ {r}}
                 /\ n \in done => r \notin node'[n].target
                 /\ node'[n].selected = node[n].selected /\ node'[n].tainted = node[n].tainted
      <3>1. CASE n \in done
        <4>1. node'[n] = [node[n] EXCEPT !.target = node[n].target \ {r}]
          BY <2>1, <3>1 DEF Untargeted
        <4>2. node[n].target \ {r} \in SUBSET Roles
          BY <1>0 DEF NodeShape
        <4> QED BY <1>0, <4>1, <4>2, TargetWritten
      <3>2. CASE n \notin done
        BY <1>0, <2>1, <3>2 DEF NodeShape
      <3> QED BY <3>1, <3>2
    <2>4. NodeShape' /\ queue' \subseteq Roles
      BY <1>0, <2>1, <2>2, <2>3, EventsRoles DEF NodeShape
    <2>5. Shape' /\ Freed'
      BY <1>0, <2>2, <2>4 DEF Shape, Freed, ModuleShape, SetsShape, SetShape
    <2>6. \A s \in Roles : s # r => Frame(s)
      BY <1>0, <2>2, <2>3, OtherFrame
    <2>7. Clean(r) => Clean(r)'
      BY <1>0, <2>3 DEF Clean
    <2>a. task'[r].mod \in {task[r].mod, Absent} /\ task'[r].step \in {"deleteResources", "idle"}
      BY <2>2, IdleShape DEF SameTask
    <2>b. task'[r].step = "deleteResources" => \A n \in Nodes : r \notin node'[n].target
      BY <2>2, <2>3, IdleShape
    <2>8. HeldInv(r)'
      BY <1>0, <2>7, <2>a, <2>b, AbsentShape DEF HeldInv, Deploying
    <2>9. SectionInv(r)'
      <3>1. Wanted(r)' <=> Wanted(r)
        BY <1>0 DEF Wanted
      <3> QED BY <1>0, <2>2, <3>1, IdleShape
              DEF SectionInv, ClassesCurrent, ModuleCurrent, ListCurrent, Swept, Made, Finalizing, Deploying
    <2> QED BY <2>5, <2>6, <2>8, <2>9 DEF Kept
  <1> QED BY <1>1, <1>2

(* A step that ends with the Module queued owes nothing to the section.    *)
LEMMA QueuedSection ==
  ASSUME NEW r \in Roles, r \in queue', ClassesCurrent(r)'
  PROVE  SectionInv(r)'
  BY DEF SectionInv

(* The DaemonSets of one role change.                                      *)
LEMMA SetsWritten ==
  ASSUME SetsShape, NEW r \in Roles, NEW d, daemonSet' = [daemonSet EXCEPT ![r] = d],
         d = [v \in Versions |-> d[v]], \A v \in Versions : SetShape(d[v])
  PROVE  SetsShape' /\ daemonSet'[r] = d /\ \A s \in Roles : s # r => daemonSet'[s] = daemonSet[s]
  <1>1. /\ daemonSet' = [s \in Roles |-> daemonSet'[s]] /\ daemonSet'[r] = d
        /\ \A s \in Roles : s # r => daemonSet'[s] = daemonSet[s]
    BY DEF SetsShape
  <1>2. SetsShape'
    <2>1. ASSUME NEW s \in Roles
          PROVE  /\ daemonSet'[s] = [v \in Versions |-> daemonSet'[s][v]]
                 /\ \A v \in Versions : SetShape(daemonSet'[s][v])
      BY <1>1 DEF SetsShape
    <2> QED BY <1>1, <2>1 DEF SetsShape, SetShape
  <1> QED BY <1>1, <1>2

LEMMA NoSetShape == SetShape(NoDaemonSet) /\ NoDaemonSet.exists = FALSE
  BY DEF NoDaemonSet, SetShape

LEMMA DeleteKeeps ==
  ASSUME Shape, LeftInv, RestInv, NEW r \in Roles, deleteResources(r)
  PROVE  Kept(r)
  <1>0. /\ UNCHANGED <<module, node>> /\ task[r].step = "deleteResources"
        /\ TaskShape /\ HeldInv(r) /\ SectionInv(r) /\ Freed /\ SetsShape /\ queue \subseteq Roles
        /\ classes \subseteq Classes
    BY DEF deleteResources, Working, Shape, LeftInv, RestInv
  <1> DEFINE found == ModuleDaemonSets(r)
             foundClasses == ModuleDeviceClasses(r)
  <1>1. PICK gone \in SUBSET found, goneClasses \in SUBSET foundClasses :
           /\ daemonSet' = [daemonSet EXCEPT ![r] =
                              [v \in Versions |-> IF v \in gone THEN NoDaemonSet ELSE daemonSet[r][v]]]
           /\ classes' = classes \ goneClasses
           /\ Loop(r, gone = found /\ goneClasses = foundClasses, "clearStatus",
                   (IF gone = {} THEN {} ELSE Roles) \cup (IF goneClasses = {} THEN {} ELSE {"dra"}))
    BY DEF deleteResources
  <1>2. found # {} \/ foundClasses # {}
    BY DEF deleteResources
  <1> DEFINE changed == (IF gone = {} THEN {} ELSE Roles) \cup (IF goneClasses = {} THEN {} ELSE {"dra"})
             complete == gone = found /\ goneClasses = foundClasses
  <1>3. /\ TaskShape' /\ Alone(r)
        /\ \/ complete /\ SameTask(r) /\ task'[r].step = "clearStatus" /\ queue' = queue \cup changed
           \/ ~complete /\ task'[r] = Idle /\ queue' = queue \cup changed \cup {r}
    <2> HIDE DEF found, foundClasses
    <2>1. Loop(r, complete, "clearStatus", changed) /\ complete \in BOOLEAN /\ "clearStatus" \in Steps
      BY <1>1 DEF Steps
    <2> HIDE DEF changed, complete
    <2> QED BY <1>0, <2>1, LoopEffect
  <1>4. goneClasses # {} => r = "dra"
    BY DEF ModuleDeviceClasses
  <1>5. r \in queue'
    BY <1>2, <1>3 DEF ModuleDeviceClasses
  <1>6. queue' \subseteq Roles /\ queue \subseteq queue'
    BY <1>0, <1>3 DEF Roles
  <1> DEFINE d == [v \in Versions |-> IF v \in gone THEN NoDaemonSet ELSE daemonSet[r][v]]
  <1>7. \A v \in Versions : SetShape(d[v]) /\ (d[v].exists => daemonSet[r][v].exists)
    BY <1>0, NoSetShape DEF SetsShape
  <1>8. SetsShape' /\ daemonSet'[r] = d /\ \A s \in Roles : s # r => daemonSet'[s] = daemonSet[s]
    <2>1. d = [v \in Versions |-> d[v]] /\ daemonSet' = [daemonSet EXCEPT ![r] = d]
      BY <1>1
    <2> HIDE DEF d
    <2> QED BY <1>0, <1>7, <2>1, SetsWritten
  <1> HIDE DEF d, found, foundClasses, changed, complete
  <1>9. Shape' /\ Freed'
    BY <1>0, <1>1, <1>3, <1>6, <1>8 DEF Shape, Freed, ModuleShape, NodeShape
  <1>10. \A s \in Roles : s # r => Frame(s)
    BY <1>0, <1>1, <1>3, <1>4, <1>6, <1>8, OtherFrame
  <1>11. Clean(r) => Clean(r)'
    BY <1>0, <1>1, <1>7, <1>8 DEF Clean
  <1>12. HeldInv(r)'
    BY <1>0, <1>3, <1>11, AbsentShape, IdleShape DEF HeldInv, Deploying, SameTask
  <1>13. SectionInv(r)'
    BY <1>3, <1>5, QueuedSection, IdleShape DEF ClassesCurrent
  <1> QED BY <1>9, <1>10, <1>12, <1>13 DEF Kept

LEMMA ReleaseKeeps ==
  ASSUME Shape, LeftInv, RestInv, NEW r \in Roles, removeFinalizer(r)
  PROVE  Kept(r)
  <1>0. /\ UNCHANGED <<node, daemonSet, classes>> /\ task[r].step = "deleteResources"
        /\ TaskShape /\ HeldInv(r) /\ SectionInv(r) /\ Freed /\ ModuleShape(module) /\ queue \subseteq Roles
        /\ ModuleDaemonSets(r) = {} /\ ModuleDeviceClasses(r) = {}
    BY DEF removeFinalizer, Working, Shape, LeftInv, RestInv
  <1>1. Clean(r)
    BY <1>0 DEF Clean, HeldInv, ModuleDaemonSets, ModuleDeviceClasses
  <1>2. Clean(r)'
    BY <1>0, <1>1 DEF Clean
  <1> DEFINE released == [task[r].mod EXCEPT !.finalizers = @ \ {r}]
  <1>3. CASE End(r, TRUE, {}) /\ UNCHANGED module
    <2>1. TaskShape' /\ Alone(r) /\ task'[r] = Idle /\ queue' = queue \cup {r}
      BY <1>0, <1>3, EndEffect
    <2>2. Shape' /\ Freed'
      BY <1>0, <1>3, <2>1 DEF Shape, Freed, ModuleShape, NodeShape, SetsShape, SetShape
    <2>3. \A s \in Roles : s # r => Frame(s)
      BY <1>0, <1>3, <2>1, OtherFrame
    <2>4. HeldInv(r)' /\ SectionInv(r)'
      BY <1>2, <2>1, QueuedSection, AbsentShape, IdleShape DEF HeldInv, Deploying, ClassesCurrent
    <2> QED BY <2>2, <2>3, <2>4 DEF Kept
  <1>4. CASE r \notin task[r].mod.finalizers /\ Step(r, "clearStatus") /\ UNCHANGED <<module, queue>>
    <2>1. TaskShape' /\ Alone(r) /\ SameTask(r) /\ task'[r].step = "clearStatus"
      BY <1>0, <1>4, StepEffect DEF Steps
    <2>2. Shape' /\ Freed'
      BY <1>0, <1>4, <2>1 DEF Shape, Freed, ModuleShape, NodeShape, SetsShape, SetShape
    <2>3. \A s \in Roles : s # r => Frame(s)
      BY <1>0, <1>4, <2>1, OtherFrame
    <2>4. HeldInv(r)'
      BY <1>2, <1>4, <2>1 DEF HeldInv, Deploying, SameTask
    <2>5. SectionInv(r)'
      <3>1. Wanted(r)' <=> Wanted(r)
        BY <1>4 DEF Wanted
      <3> QED BY <1>0, <1>2, <1>4, <2>1, <3>1
              DEF SectionInv, ClassesCurrent, ModuleCurrent, ListCurrent, Swept, Made, Finalizing, Deploying
    <2> QED BY <2>2, <2>3, <2>4, <2>5 DEF Kept
  <1>5. CASE /\ r \in task[r].mod.finalizers /\ module = task[r].mod
             /\ module' = IF released.phase = "deleting" /\ released.finalizers = {}
                          THEN Absent ELSE released
             /\ queue' = queue \cup Roles
             /\ task' = [task EXCEPT ![r].step = "clearStatus", ![r].mod = released]
    <2>1. /\ ModuleShape(released) /\ released.finalizers = module.finalizers \ {r}
          /\ released.phase = module.phase
      BY <1>0, <1>5 DEF ModuleShape
    <2> DEFINE t == [task[r] EXCEPT !.step = "clearStatus", !.mod = released]
    <2>2. task' = [task EXCEPT ![r] = t]
      BY <1>5
    <2> HIDE DEF released
    <2>3. /\ t \in [step: Steps, mod: {t.mod}, existing: {t.existing}, existingClasses: {t.existingClasses}]
          /\ t.step = "clearStatus" /\ t.mod = released
      BY <1>0 DEF TaskShape, Steps
    <2> HIDE DEF t
    <2>4. TaskShape' /\ Alone(r) /\ task'[r] = t
      BY <1>0, <2>1, <2>2, <2>3, TaskWritten
    <2>5. /\ ModuleShape(module') /\ module'.finalizers = module.finalizers \ {r}
          /\ module'.phase = "none" => module'.finalizers = {}
      <3>1. module.phase # "none"
        BY <1>0, <1>5 DEF Freed
      <3> QED BY <1>5, <2>1, <3>1, AbsentShape
    <2>6. Shape' /\ Freed'
      BY <1>0, <1>5, <2>4, <2>5 DEF Shape, Freed, ModuleShape, NodeShape, SetsShape, SetShape
    <2>7. \A s \in Roles : s # r => Frame(s)
      BY <1>0, <1>5, <2>4, <2>5, OtherFrame
    <2>8. HeldInv(r)'
      BY <1>2, <2>1, <2>3, <2>4 DEF HeldInv, Deploying
    <2>9. SectionInv(r)'
      BY <1>5, <2>3, <2>4, QueuedSection DEF ClassesCurrent
    <2> QED BY <2>6, <2>7, <2>8, <2>9 DEF Kept
  <1> QED BY <1>3, <1>4, <1>5 DEF removeFinalizer

(* A Reconcile ends with the status of the Module: nothing else changes.   *)
LEMMA StatusWritten ==
  ASSUME ModuleShape(module), NEW r \in Roles, NEW st, NEW m, m = [module EXCEPT !.status[r] = st]
  PROVE  ModuleShape(m) /\ m.phase = module.phase /\ m.finalizers = module.finalizers
  <1> DEFINE x == [module.status EXCEPT ![r] = st]
  <1>1. m = [module EXCEPT !.status = x]
    OBVIOUS
  <1> HIDE DEF x
  <1> QED BY <1>1 DEF ModuleShape

LEMMA LastKeeps ==
  ASSUME Shape, LeftInv, RestInv, NEW r \in Roles, UNCHANGED <<node, daemonSet, classes>>,
         task[r].step \in {"clearStatus", "updateStatus"}, NEW failed,
         ModuleShape(module'), module'.phase = module.phase, module'.finalizers = module.finalizers,
         End(r, failed, IF module' = module THEN {} ELSE Roles)
  PROVE  Kept(r)
  <1>0. /\ TaskShape /\ HeldInv(r) /\ SectionInv(r) /\ Freed /\ queue \subseteq Roles
    BY DEF Shape, LeftInv, RestInv
  <1>1. /\ TaskShape' /\ Alone(r) /\ task'[r] = Idle /\ task'[r].step = "idle" /\ queue' \subseteq Roles
        /\ queue \subseteq queue' /\ (module' = module \/ Roles \subseteq queue')
    BY <1>0, EndEffect, IdleShape
  <1>2. Shape' /\ Freed'
    BY <1>0, <1>1 DEF Shape, Freed, NodeShape, SetsShape, SetShape, ModuleShape
  <1>3. \A s \in Roles : s # r => Frame(s)
    BY <1>1, OtherFrame
  <1>4. Clean(r)' <=> Clean(r)
    BY DEF Clean
  <1>5. HeldInv(r)'
    BY <1>0, <1>1, <1>4, AbsentShape, IdleShape DEF HeldInv, Deploying
  <1>6. SectionInv(r)'
    <2>1. ClassesCurrent(r)'
      BY <1>1 DEF ClassesCurrent
    <2> SUFFICES ASSUME r \notin queue'
                 PROVE  ModuleCurrent(r)' /\ ListCurrent(r)' /\ Swept(r)' /\ Made(r)'
      BY <2>1 DEF SectionInv
    <2>2. module' = module /\ r \notin queue
      BY <1>1
    <2>3. ModuleCurrent(r) /\ Swept(r) /\ Made(r)
      BY <1>0, <2>2 DEF SectionInv
    <2>4. (Wanted(r)' <=> Wanted(r)) /\ (Sets(r)' <=> Sets(r)) /\ (Targets' <=> Targets)
      BY <2>2 DEF Wanted, Sets, Targets
    <2>5. task[r].step = "clearStatus" => ~Wanted(r)
      BY <2>3 DEF ModuleCurrent, Finalizing
    <2>6. task[r].step = "updateStatus" => Wanted(r)
      BY <2>3 DEF ModuleCurrent, Deploying
    <2>7. ModuleCurrent(r)' /\ ListCurrent(r)'
      BY <1>1 DEF ModuleCurrent, ListCurrent, Finalizing, Deploying
    <2>8. Swept(r)'
      BY <1>4, <2>3, <2>4, <2>6 DEF Swept
    <2>9. Made(r)'
      BY <2>2, <2>3, <2>4, <2>5 DEF Made
    <2> QED BY <2>7, <2>8, <2>9
  <1> QED BY <1>2, <1>3, <1>5, <1>6 DEF Kept

LEMMA ClearKeeps ==
  ASSUME Shape, LeftInv, RestInv, NEW r \in Roles, clearStatus(r)
  PROVE  Kept(r)
  <1>1. /\ UNCHANGED <<node, daemonSet, classes>> /\ task[r].step = "clearStatus" /\ ModuleShape(module)
        /\ End(r, FALSE, IF module' = module THEN {} ELSE Roles)
        /\ module' = module \/ module' = [module EXCEPT !.status[r] = NoStatus]
    BY DEF clearStatus, Working, Shape
  <1>2. ModuleShape(module') /\ module'.phase = module.phase /\ module'.finalizers = module.finalizers
    <2>1. CASE module' = [module EXCEPT !.status[r] = NoStatus]
      BY <1>1, <2>1, StatusWritten
    <2> QED BY <1>1, <2>1
  <1> QED BY <1>1, <1>2, LastKeeps

LEMMA UpdateKeeps ==
  ASSUME Shape, LeftInv, RestInv, NEW r \in Roles, moduleUpdateStatus(r)
  PROVE  Kept(r)
  <1> DEFINE found == module.phase # "none"
  <1>1. /\ UNCHANGED <<node, daemonSet, classes>> /\ task[r].step = "updateStatus" /\ ModuleShape(module)
        /\ End(r, ~found, IF module' = module THEN {} ELSE Roles)
        /\ module' = module \/ \E st : module' = [module EXCEPT !.status[r] = st]
    BY DEF moduleUpdateStatus, Working, Shape
  <1>2. ModuleShape(module') /\ module'.phase = module.phase /\ module'.finalizers = module.finalizers
    <2>1. CASE module' # module
      <3>1. PICK st : module' = [module EXCEPT !.status[r] = st]
        BY <1>1, <2>1
      <3> QED BY <1>1, <3>1, StatusWritten
    <2> QED BY <1>1, <2>1
  <1> HIDE DEF found
  <1> QED BY <1>1, <1>2, LastKeeps

LEMMA FinalizerKeeps ==
  ASSUME Shape, LeftInv, RestInv, NEW r \in Roles, setFinalizer(r)
  PROVE  Kept(r)
  <1>0. /\ UNCHANGED <<node, daemonSet, classes>> /\ task[r].step = "setFinalizer"
        /\ TaskShape /\ HeldInv(r) /\ SectionInv(r) /\ Freed /\ ModuleShape(module) /\ queue \subseteq Roles
        /\ ModuleShape(task[r].mod)
    BY DEF setFinalizer, Working, Shape, TaskShape, LeftInv, RestInv
  <1>a. Clean(r)' <=> Clean(r)
    BY <1>0 DEF Clean
  <1> DEFINE has == r \in task[r].mod.finalizers
             patched == [task[r].mod EXCEPT !.finalizers = @ \cup {r}]
             t == [step |-> "targetLabels", mod |-> SpecOf(patched), existing |-> daemonSet[r],
                   existingClasses |-> ModuleDeviceClasses(r)]
  <1>1. CASE End(r, TRUE, {}) /\ UNCHANGED module
    <2>1. TaskShape' /\ Alone(r) /\ task'[r] = Idle /\ queue' = queue \cup {r}
      BY <1>0, <1>1, EndEffect
    <2>2. Shape' /\ Freed'
      BY <1>0, <1>1, <2>1 DEF Shape, Freed, ModuleShape, NodeShape, SetsShape, SetShape
    <2>3. \A s \in Roles : s # r => Frame(s)
      BY <1>0, <1>1, <2>1, OtherFrame
    <2>4. HeldInv(r)' /\ SectionInv(r)'
      BY <1>0, <1>1, <1>a, <2>1, QueuedSection, AbsentShape, IdleShape DEF HeldInv, Deploying, ClassesCurrent
    <2> QED BY <2>2, <2>3, <2>4 DEF Kept
  <1>2. CASE /\ has \/ module = task[r].mod
             /\ module' = IF has THEN module ELSE patched
             /\ queue' = IF has THEN queue ELSE queue \cup Roles
             /\ task' = [task EXCEPT ![r] = t]
    <2>1. /\ ModuleShape(patched) /\ patched.finalizers = task[r].mod.finalizers \cup {r}
          /\ patched.phase = task[r].mod.phase /\ patched.version = task[r].mod.version
          /\ patched.classes = task[r].mod.classes
      BY <1>0 DEF ModuleShape
    <2>2. /\ ModuleShape(SpecOf(patched)) /\ SpecOf(patched).finalizers = {}
          /\ SpecOf(patched).version = patched.version /\ SpecOf(patched).classes = patched.classes
      <3> HIDE DEF patched
      <3> QED BY <2>1, AbsentShape DEF SpecOf, Absent, ModuleShape
    <2>3. /\ t \in [step: Steps, mod: {t.mod}, existing: {t.existing}, existingClasses: {t.existingClasses}]
          /\ t.step = "targetLabels" /\ t.mod = SpecOf(patched) /\ t.existing = daemonSet[r]
          /\ t.existingClasses = ModuleDeviceClasses(r)
      <3> HIDE DEF patched
      <3>1. \A m, e, c : LET x == [step |-> "targetLabels", mod |-> m, existing |-> e, existingClasses |-> c]
                         IN x \in [step: Steps, mod: {x.mod}, existing: {x.existing},
                                   existingClasses: {x.existingClasses}]
        BY DEF Steps
      <3> QED BY <3>1
    <2> HIDE DEF t, patched, has
    <2>4. task' = [task EXCEPT ![r] = t]
      BY <1>2
    <2> USE DEF has
    <2>5. TaskShape' /\ Alone(r) /\ task'[r] = t
      <3>1. ModuleShape(t.mod)
        BY <2>2, <2>3
      <3> QED BY <1>0, <2>3, <2>4, <3>1, TaskWritten
    <2>6. r \in module'.finalizers /\ ModuleShape(module')
      BY <1>0, <1>2, <2>1 DEF HeldInv
    <2>7. \A s \in Roles : s # r => (s \in module'.finalizers <=> s \in module.finalizers)
      BY <1>2, <2>1
    <2>8. Freed'
      BY <1>0, <1>2, <2>1 DEF Freed, HeldInv
    <2>9. Shape'
      BY <1>0, <1>2, <2>5, <2>6 DEF Shape, NodeShape, SetsShape, SetShape, ModuleShape
    <2>10. \A s \in Roles : s # r => Frame(s)
      BY <1>0, <1>2, <2>5, <2>7, OtherFrame
    <2>11. HeldInv(r)'
      BY <2>2, <2>3, <2>5, <2>6 DEF HeldInv
    <2>12. SectionInv(r)'
      <3>1. ClassesCurrent(r)'
        BY <1>0, <2>3, <2>5 DEF ClassesCurrent, ModuleDeviceClasses
      <3> SUFFICES ASSUME r \notin queue'
                   PROVE  ModuleCurrent(r)' /\ ListCurrent(r)' /\ Swept(r)' /\ Made(r)'
        BY <3>1 DEF SectionInv
      <3>2. module' = module /\ r \notin queue
        BY <1>2
      <3>3. /\ Wanted(r)' /\ task[r].mod.version = module.version /\ task[r].mod.classes = module.classes
        BY <1>0, <3>2 DEF SectionInv, ModuleCurrent, Wanted
      <3>4. ModuleCurrent(r)'
        BY <2>1, <2>2, <2>3, <2>5, <3>2, <3>3 DEF ModuleCurrent, Finalizing
      <3>5. ListCurrent(r)'
        BY <1>0, <2>3, <2>5 DEF ListCurrent
      <3>6. Swept(r)' /\ Made(r)'
        BY <2>3, <2>5 DEF Swept, Made
      <3> QED BY <3>4, <3>5, <3>6
    <2> QED BY <2>8, <2>9, <2>10, <2>11, <2>12 DEF Kept
  <1> QED BY <1>1, <1>2 DEF setFinalizer

LEMMA TargetKeeps ==
  ASSUME Shape, LeftInv, RestInv, NEW r \in Roles, handleTargetLabels(r)
  PROVE  Kept(r)
  <1>0. /\ UNCHANGED <<module, daemonSet, classes>> /\ task[r].step = "targetLabels"
        /\ TaskShape /\ HeldInv(r) /\ SectionInv(r) /\ Freed /\ NodeShape /\ queue \subseteq Roles
    BY DEF handleTargetLabels, Working, Shape, LeftInv, RestInv
  <1>1. PICK done \in SUBSET Nodes :
           /\ node' = [n \in Nodes |-> IF n \in done THEN [node[n] EXCEPT !.target = Targeted(n, r)]
                                       ELSE node[n]]
           /\ Loop(r, done = Nodes, "daemonSets", NodesEvents(node'))
    BY DEF handleTargetLabels
  <1>2. /\ TaskShape' /\ Alone(r)
        /\ \/ done = Nodes /\ SameTask(r) /\ task'[r].step = "daemonSets"
              /\ queue' = queue \cup NodesEvents(node')
           \/ done # Nodes /\ task'[r] = Idle /\ queue' = queue \cup NodesEvents(node') \cup {r}
    <2> DEFINE complete == done = Nodes
               changed == NodesEvents(node')
    <2>1. Loop(r, complete, "daemonSets", changed) /\ complete \in BOOLEAN /\ "daemonSets" \in Steps
      BY <1>1 DEF Steps
    <2>2. complete <=> done = Nodes
      OBVIOUS
    <2> HIDE DEF complete, changed
    <2>3. /\ TaskShape' /\ Alone(r)
          /\ \/ complete /\ SameTask(r) /\ task'[r].step = "daemonSets" /\ queue' = queue \cup changed
             \/ ~complete /\ task'[r] = Idle /\ queue' = queue \cup changed \cup {r}
      BY <1>0, <2>1, LoopEffect
    <2> QED BY <2>2, <2>3 DEF changed
  <1>3. ASSUME NEW n \in Nodes
        PROVE  /\ node'[n] \in [selected: BOOLEAN, tainted: BOOLEAN, schedule: {node'[n].schedule},
                                target: SUBSET Roles]
               /\ \A s \in Roles : s # r => (s \in node'[n].target <=> s \in node[n].target)
               /\ n \in done /\ node[n].selected => (r \in node'[n].target <=> ~node[n].tainted)
               /\ node'[n].selected = node[n].selected /\ node'[n].tainted = node[n].tainted
    <2>1. CASE n \in done
      <3>1. node'[n] = [node[n] EXCEPT !.target = Targeted(n, r)]
        BY <1>1, <2>1
      <3>2. Targeted(n, r) \in SUBSET Roles
        BY <1>0 DEF NodeShape, Targeted
      <3>3. /\ node'[n] \in [selected: BOOLEAN, tainted: BOOLEAN, schedule: {node'[n].schedule},
                             target: SUBSET Roles]
            /\ node'[n].target = Targeted(n, r)
            /\ node'[n].selected = node[n].selected /\ node'[n].tainted = node[n].tainted
        BY <1>0, <3>1, <3>2, TargetWritten
      <3>4. /\ \A s \in Roles : s # r => (s \in Targeted(n, r) <=> s \in node[n].target)
            /\ node[n].selected => (r \in Targeted(n, r) <=> ~node[n].tainted)
        BY DEF Targeted
      <3> QED BY <3>3, <3>4
    <2>2. CASE n \notin done
      BY <1>0, <1>1, <2>2 DEF NodeShape
    <2> QED BY <2>1, <2>2
  <1>4. NodeShape' /\ queue' \subseteq Roles
    BY <1>0, <1>1, <1>2, <1>3, EventsRoles DEF NodeShape
  <1>5. Shape' /\ Freed'
    BY <1>0, <1>2, <1>4 DEF Shape, Freed, ModuleShape, SetsShape, SetShape
  <1>6. \A s \in Roles : s # r => Frame(s)
    BY <1>0, <1>2, <1>3, OtherFrame
  <1>7. r \in module.finalizers
    BY <1>0 DEF HeldInv, Deploying
  <1>8. task'[r].step \in {"daemonSets", "idle"}
    BY <1>2, IdleShape
  <1>9. HeldInv(r)'
    BY <1>0, <1>7, <1>8 DEF HeldInv
  <1>10. SectionInv(r)'
    <2>1. CASE task'[r] = Idle /\ r \in queue'
      BY <2>1, IdleShape DEF SectionInv, ClassesCurrent
    <2>2. CASE done = Nodes /\ SameTask(r) /\ task'[r].step = "daemonSets" /\ queue \subseteq queue'
      <3>1. ClassesCurrent(r)'
        BY <1>0, <2>2 DEF SectionInv, ClassesCurrent, SameTask
      <3> SUFFICES ASSUME r \notin queue'
                   PROVE  ModuleCurrent(r)' /\ ListCurrent(r)' /\ Swept(r)' /\ Made(r)'
        BY <3>1 DEF SectionInv
      <3>2. ModuleCurrent(r) /\ ListCurrent(r)
        BY <1>0, <2>2 DEF SectionInv
      <3>3. Wanted(r)' <=> Wanted(r)
        BY <1>0 DEF Wanted
      <3>4. ModuleCurrent(r)'
        BY <1>0, <2>2, <3>2, <3>3 DEF ModuleCurrent, SameTask, Finalizing, Deploying
      <3>5. ListCurrent(r)'
        BY <1>0, <2>2, <3>2 DEF ListCurrent, SameTask
      <3>6. r = "dra" => Targets'
        BY <1>3, <2>2 DEF Targets
      <3>7. Swept(r)' /\ Made(r)'
        BY <2>2, <3>6 DEF Swept, Made
      <3> QED BY <3>4, <3>5, <3>7
    <2> QED BY <1>2, <2>1, <2>2
  <1> QED BY <1>5, <1>6, <1>9, <1>10 DEF Kept

LEMMA DaemonSetsKeeps ==
  ASSUME Shape, LeftInv, RestInv, NEW r \in Roles, handleDaemonSets(r)
  PROVE  Kept(r)
  <1>0. /\ UNCHANGED <<module, node, classes>> /\ task[r].step = "daemonSets"
        /\ TaskShape /\ HeldInv(r) /\ SectionInv(r) /\ Freed /\ SetsShape /\ queue \subseteq Roles
        /\ task[r].mod.version \in Versions
    BY DEF handleDaemonSets, Working, Shape, TaskShape, ModuleShape, LeftInv, RestInv
  <1> DEFINE next == IF r = "dra" THEN "deviceClasses" ELSE "updateStatus"
             changed == IF daemonSet' = daemonSet THEN {} ELSE Roles
  <1>1. PICK gone \in SUBSET Unused(r) :
           /\ daemonSet' = [daemonSet EXCEPT ![r] =
                  [v \in Versions |-> CASE v \in gone -> NoDaemonSet
                                       [] v = task[r].mod.version -> Deployed(daemonSet[r][v])
                                       [] OTHER -> daemonSet[r][v]]]
           /\ Loop(r, gone = Unused(r), next, changed)
    BY DEF handleDaemonSets
  <1>2. /\ TaskShape' /\ Alone(r)
        /\ \/ gone = Unused(r) /\ SameTask(r) /\ task'[r].step = next /\ queue' = queue \cup changed
           \/ gone # Unused(r) /\ task'[r] = Idle /\ queue' = queue \cup changed \cup {r}
    <2> DEFINE complete == gone = Unused(r)
    <2>1. Loop(r, complete, next, changed) /\ complete \in BOOLEAN /\ next \in Steps
      BY <1>1 DEF Steps
    <2>2. complete <=> gone = Unused(r)
      OBVIOUS
    <2> HIDE DEF complete, next, changed
    <2>3. /\ TaskShape' /\ Alone(r)
          /\ \/ complete /\ SameTask(r) /\ task'[r].step = next /\ queue' = queue \cup changed
             \/ ~complete /\ task'[r] = Idle /\ queue' = queue \cup changed \cup {r}
      BY <1>0, <2>1, LoopEffect
    <2> QED BY <2>2, <2>3
  <1>3. queue' \subseteq Roles /\ queue \subseteq queue' /\ (r \notin queue' => daemonSet' = daemonSet)
    BY <1>0, <1>2
  <1> HIDE DEF changed
  <1> DEFINE d == [v \in Versions |-> CASE v \in gone -> NoDaemonSet
                                       [] v = task[r].mod.version -> Deployed(daemonSet[r][v])
                                       [] OTHER -> daemonSet[r][v]]
  <1>4. ASSUME NEW v \in Versions
        PROVE  /\ SetShape(d[v])
               /\ v \in gone => ~d[v].exists
               /\ v \notin gone /\ v = task[r].mod.version => d[v].exists
    <2>1. SetShape(daemonSet[r][v])
      BY <1>0 DEF SetsShape
    <2>2. SetShape(Deployed(daemonSet[r][v])) /\ Deployed(daemonSet[r][v]).exists
      BY <2>1 DEF Deployed, SetShape
    <2>3. CASE v \in gone
      <3>1. v # task[r].mod.version
        BY <2>3 DEF Unused, OlderVersionUnused
      <3> QED BY <2>3, <3>1, NoSetShape
    <2>4. CASE v \notin gone /\ v = task[r].mod.version
      BY <2>2, <2>4
    <2>5. CASE v \notin gone /\ v # task[r].mod.version
      BY <2>1, <2>5
    <2> QED BY <2>3, <2>4, <2>5
  <1>5. SetsShape' /\ daemonSet'[r] = d /\ \A s \in Roles : s # r => daemonSet'[s] = daemonSet[s]
    <2>1. d = [v \in Versions |-> d[v]] /\ daemonSet' = [daemonSet EXCEPT ![r] = d]
      BY <1>1
    <2> HIDE DEF d
    <2> QED BY <1>0, <1>4, <2>1, SetsWritten
  <1> HIDE DEF d
  <1>6. Shape' /\ Freed'
    BY <1>0, <1>2, <1>3, <1>5 DEF Shape, Freed, ModuleShape, NodeShape
  <1>7. \A s \in Roles : s # r => Frame(s)
    BY <1>0, <1>2, <1>3, <1>5, OtherFrame
  <1>8. task'[r].step \in {"deviceClasses", "updateStatus", "idle"}
    BY <1>2, IdleShape
  <1>9. HeldInv(r)'
    BY <1>0, <1>8 DEF HeldInv, Deploying
  <1>10. SectionInv(r)'
    <2>1. CASE task'[r] = Idle /\ r \in queue'
      BY <2>1, IdleShape DEF SectionInv, ClassesCurrent
    <2>2. CASE gone = Unused(r) /\ SameTask(r) /\ task'[r].step = next
      <3>1. ClassesCurrent(r)'
        BY <1>0, <2>2 DEF SectionInv, ClassesCurrent, SameTask
      <3> SUFFICES ASSUME r \notin queue'
                   PROVE  ModuleCurrent(r)' /\ ListCurrent(r)' /\ Swept(r)' /\ Made(r)'
        BY <3>1 DEF SectionInv
      <3>2. daemonSet[r] = d /\ daemonSet' = daemonSet /\ r \notin queue
        BY <1>3, <1>5
      <3>3. ModuleCurrent(r) /\ ListCurrent(r) /\ Made(r)
        BY <1>0, <3>2 DEF SectionInv
      <3>4. /\ Wanted(r) /\ task[r].mod.version = module.version /\ task[r].mod.classes = module.classes
            /\ task[r].existing = daemonSet[r] /\ (r = "dra" => Targets)
        BY <1>0, <3>3 DEF ModuleCurrent, ListCurrent, Made, Deploying
      <3>5. Wanted(r)' /\ (r = "dra" => Targets')
        BY <1>0, <3>4 DEF Wanted, Targets
      <3>6. ModuleCurrent(r)' /\ ListCurrent(r)' /\ Swept(r)'
        BY <1>0, <2>2, <3>4, <3>5 DEF ModuleCurrent, ListCurrent, Swept, SameTask, Finalizing, Deploying
      <3>7. Sets(r)'
        <4>1. task[r].mod.version \notin gone
          BY DEF Unused, OlderVersionUnused
        <4>2. daemonSet[r][module.version].exists
          BY <1>0, <1>4, <3>2, <3>4, <4>1
        <4>3. ASSUME NEW v \in Versions \ {module.version}, daemonSet[r][v].exists
              PROVE  daemonSet[r][v].desired > 0
          <5>1. v \notin Unused(r)
            BY <1>4, <2>2, <3>2, <4>3
          <5>2. daemonSet[r][v].desired # 0
            BY <3>4, <4>3, <5>1 DEF Unused, OlderVersionUnused
          <5>3. daemonSet[r][v].desired \in Nat
            BY <1>0 DEF SetsShape, SetShape
          <5> QED BY <5>2, <5>3
        <4> QED BY <1>0, <3>2, <4>2, <4>3 DEF Sets
      <3>8. Made(r)'
        BY <2>2, <3>5, <3>7 DEF Made
      <3> QED BY <3>6, <3>8
    <2> QED BY <1>2, <2>1, <2>2
  <1> QED BY <1>6, <1>7, <1>9, <1>10 DEF Kept

LEMMA ClassesKeeps ==
  ASSUME Shape, LeftInv, RestInv, handleDeviceClasses
  PROVE  Kept("dra")
  <1> DEFINE r == "dra"
             missing == task[r].mod.classes \ classes
             extra == task[r].existingClasses \ task[r].mod.classes
             changed == IF classes' = classes THEN {} ELSE {"dra"}
  <1>0. /\ UNCHANGED <<module, node, daemonSet>> /\ task[r].step = "deviceClasses" /\ r \in Roles
        /\ TaskShape /\ HeldInv(r) /\ SectionInv(r) /\ Freed /\ queue \subseteq Roles
        /\ classes \subseteq Classes /\ task[r].mod.classes \subseteq Classes
    BY DEF handleDeviceClasses, Working, Shape, TaskShape, ModuleShape, LeftInv, RestInv, Roles
  <1>1. PICK made \in SUBSET missing, gone \in SUBSET extra :
           /\ classes' = (classes \cup made) \ gone
           /\ Loop(r, made = missing /\ gone = extra, "updateStatus", changed)
    BY DEF handleDeviceClasses
  <1> DEFINE complete == made = missing /\ gone = extra
  <1>2. /\ TaskShape' /\ Alone(r)
        /\ \/ complete /\ SameTask(r) /\ task'[r].step = "updateStatus" /\ queue' = queue \cup changed
           \/ ~complete /\ task'[r] = Idle /\ queue' = queue \cup changed \cup {r}
    <2> HIDE DEF missing, extra
    <2>1. Loop(r, complete, "updateStatus", changed) /\ complete \in BOOLEAN /\ "updateStatus" \in Steps
      BY <1>1 DEF Steps
    <2> HIDE DEF complete, changed, r
    <2> QED BY <1>0, <2>1, LoopEffect
  <1>3. queue' \subseteq Roles /\ queue \subseteq queue'
    BY <1>0, <1>2
  <1>4. Shape' /\ Freed'
    <2>1. classes' \subseteq Classes
      BY <1>0, <1>1
    <2> QED BY <1>0, <1>2, <1>3, <2>1 DEF Shape, Freed, ModuleShape, NodeShape, SetsShape, SetShape
  <1>5. \A s \in Roles : s # r => Frame(s)
    BY <1>0, <1>2, <1>3, OtherFrame
  <1>6. task'[r].step \in {"updateStatus", "idle"}
    BY <1>2, IdleShape
  <1>7. HeldInv("dra")'
    BY <1>0, <1>6 DEF HeldInv, Deploying
  <1>8. SectionInv("dra")'
    <2>1. CASE task'[r] = Idle /\ r \in queue'
      BY <2>1, IdleShape DEF SectionInv, ClassesCurrent
    <2>2. CASE complete /\ SameTask(r) /\ task'[r].step = "updateStatus"
      <3>1. ClassesCurrent("dra")'
        BY <2>2 DEF ClassesCurrent
      <3> SUFFICES ASSUME "dra" \notin queue'
                   PROVE  ModuleCurrent("dra")' /\ ListCurrent("dra")' /\ Swept("dra")' /\ Made("dra")'
        BY <3>1 DEF SectionInv
      <3>2. ModuleCurrent(r) /\ Made(r) /\ ClassesCurrent(r)
        BY <1>0, <1>3 DEF SectionInv
      <3>3. /\ Wanted(r) /\ task[r].mod.version = module.version /\ task[r].mod.classes = module.classes
            /\ task[r].existingClasses = classes /\ Targets /\ Sets(r)
        BY <1>0, <3>2 DEF ModuleCurrent, ClassesCurrent, Made, Deploying
      <3>4. Wanted("dra")' /\ Targets' /\ Sets("dra")'
        BY <1>0, <3>3 DEF Wanted, Targets, Sets
      <3>5. classes' = module'.classes
        BY <1>0, <1>1, <2>2, <3>3
      <3>6. ModuleCurrent("dra")' /\ ListCurrent("dra")' /\ Swept("dra")'
        BY <1>0, <2>2, <3>3, <3>4 DEF ModuleCurrent, ListCurrent, Swept, SameTask, Finalizing, Deploying
      <3>7. Made("dra")'
        BY <3>4, <3>5 DEF Made
      <3> QED BY <3>6, <3>7
    <2> QED BY <1>2, <2>1, <2>2
  <1> QED BY <1>4, <1>5, <1>7, <1>8 DEF Kept

LEMMA FailKeeps ==
  ASSUME Shape, LeftInv, RestInv, NEW r \in Roles, CallFails(r)
  PROVE  Kept(r)
  <1>0. /\ UNCHANGED <<module, node, daemonSet, classes>> /\ End(r, TRUE, {})
        /\ TaskShape /\ HeldInv(r) /\ Freed /\ queue \subseteq Roles
    BY DEF CallFails, Shape, LeftInv
  <1>1. TaskShape' /\ Alone(r) /\ task'[r] = Idle /\ queue' = queue \cup {r}
    BY <1>0, EndEffect
  <1>2. Shape' /\ Freed'
    BY <1>0, <1>1 DEF Shape, Freed, ModuleShape, NodeShape, SetsShape, SetShape
  <1>3. \A s \in Roles : s # r => Frame(s)
    BY <1>0, <1>1, OtherFrame
  <1>4. Clean(r)' <=> Clean(r)
    BY <1>0 DEF Clean
  <1>5. HeldInv(r)'
    BY <1>0, <1>1, <1>4, AbsentShape, IdleShape DEF HeldInv, Deploying
  <1>6. SectionInv(r)'
    BY <1>1, QueuedSection, IdleShape DEF ClassesCurrent
  <1> QED BY <1>2, <1>3, <1>5, <1>6 DEF Kept

-----------------------------------------------------------------------------
(* The steps of everybody else                                             *)

Untouched == Shape' /\ Freed' /\ \A r \in Roles : Frame(r)

LEMMA SetStatusFrame ==
  ASSUME Shape, LeftInv, NEW r \in Roles, NEW v \in Versions, DaemonSetStatus(r, v)
  PROVE  Untouched
  <1>0. /\ UNCHANGED <<module, node, classes, task>> /\ queue' = queue \cup Roles
        /\ daemonSet[r][v].exists /\ SetsShape /\ queue \subseteq Roles /\ Freed
    BY DEF DaemonSetStatus, Shape, LeftInv
  <1> DEFINE new(a) == [exists |-> TRUE, desired |-> Desired(r, v), available |-> a]
  <1>1. PICK a : daemonSet' = [daemonSet EXCEPT ![r] = [daemonSet[r] EXCEPT ![v] = new(a)]]
    BY DEF DaemonSetStatus
  <1>2. SetShape(new(a)) /\ new(a).exists
    <2>1. Desired(r, v) \in Nat
      <3>1. IsFiniteSet({n \in Nodes : Matches(r, v, n)})
        BY ScheduledPodsAssumption, FS_Subset
      <3> QED BY <3>1, FS_CardinalityType DEF Desired
    <2> QED BY <2>1 DEF SetShape
  <1> HIDE DEF new
  <1> DEFINE d == [daemonSet[r] EXCEPT ![v] = new(a)]
  <1>3. /\ d = [w \in Versions |-> d[w]]
        /\ \A w \in Versions : SetShape(d[w]) /\ d[w].exists = daemonSet[r][w].exists
    BY <1>0, <1>2 DEF SetsShape, SetShape
  <1>4. SetsShape' /\ daemonSet'[r] = d /\ \A s \in Roles : s # r => daemonSet'[s] = daemonSet[s]
    <2>1. daemonSet' = [daemonSet EXCEPT ![r] = d]
      BY <1>1
    <2> HIDE DEF d
    <2> QED BY <1>0, <1>3, <2>1, SetsWritten
  <1> HIDE DEF d
  <1>5. Shape' /\ Freed'
    BY <1>0, <1>4 DEF Shape, Freed, ModuleShape, NodeShape, TaskShape
  <1>6. \A s \in Roles : \A w \in Versions : daemonSet'[s][w].exists = daemonSet[s][w].exists
    BY <1>3, <1>4
  <1>7. \A s \in Roles : Frame(s)
    BY <1>0, <1>6 DEF Frame
  <1> QED BY <1>5, <1>7 DEF Untouched

LEMMA ModuleFrame ==
  ASSUME Shape, UNCHANGED <<node, daemonSet, classes, task>>, queue' = queue \cup Roles,
         ModuleShape(module'), module'.finalizers = module.finalizers, Freed'
  PROVE  Untouched
  <1>1. Shape'
    BY DEF Shape, NodeShape, SetsShape, SetShape, TaskShape, ModuleShape
  <1>2. \A s \in Roles : Frame(s)
    BY DEF Frame
  <1> QED BY <1>1, <1>2 DEF Untouched

LEMMA ModuleStatusFrame ==
  ASSUME Shape, LeftInv, ModuleStatus
  PROVE  Untouched
  <1>1. /\ UNCHANGED <<node, daemonSet, classes, task>> /\ queue' = queue \cup Roles
        /\ ModuleShape(module) /\ Freed /\ module.phase # "none"
    BY DEF ModuleStatus, Shape, LeftInv
  <1>2. PICK x : module' = [module EXCEPT !.matching = x]
    BY DEF ModuleStatus
  <1>3. ModuleShape(module') /\ module'.finalizers = module.finalizers /\ module'.phase # "none"
    BY <1>1, <1>2 DEF ModuleShape
  <1> QED BY <1>1, <1>3, ModuleFrame DEF Freed

LEMMA WriteFrame ==
  ASSUME Shape, LeftInv, CreateModule \/ EditModule \/ DeleteModule
  PROVE  Untouched
  <1>0. ModuleShape(module) /\ Freed
    BY DEF Shape, LeftInv
  <1>1. /\ UNCHANGED <<node, daemonSet, classes, task>> /\ queue' = queue \cup Roles
    BY DEF CreateModule, EditModule, DeleteModule, WriteModule
  <1>2. ModuleShape(module') /\ module'.finalizers = module.finalizers /\ Freed'
    <2>1. CASE CreateModule
      <3>1. PICK s \in SectionSets, c \in SUBSET Classes :
               module' = [Absent EXCEPT !.phase = "live", !.sections = s, !.classes = c]
        BY <2>1 DEF CreateModule, WriteModule
      <3>2. s \in SUBSET Roles
        BY ScheduledPodsAssumption
      <3>3. ModuleShape(module') /\ module'.finalizers = {}
        BY <3>1, <3>2, AbsentShape DEF ModuleShape, Phases
      <3> QED BY <1>0, <2>1, <3>3 DEF CreateModule, Freed
    <2>2. CASE EditModule
      <3>1. \/ \E v \in Versions : module' = [module EXCEPT !.version = v]
            \/ \E s \in SectionSets : module' = [module EXCEPT !.sections = s]
            \/ \E c \in SUBSET Classes : module' = [module EXCEPT !.classes = c]
        BY <2>2 DEF EditModule, WriteModule
      <3>2. SectionSets \subseteq SUBSET Roles /\ module.phase = "live"
        BY <2>2, ScheduledPodsAssumption DEF EditModule
      <3>3. ModuleShape(module') /\ module'.finalizers = module.finalizers /\ module'.phase = "live"
        <4>1. CASE \E v \in Versions : module' = [module EXCEPT !.version = v]
          BY <1>0, <3>2, <4>1 DEF ModuleShape
        <4>2. CASE \E s \in SectionSets : module' = [module EXCEPT !.sections = s]
          BY <1>0, <3>2, <4>2 DEF ModuleShape
        <4>3. CASE \E c \in SUBSET Classes : module' = [module EXCEPT !.classes = c]
          BY <1>0, <3>2, <4>3 DEF ModuleShape
        <4> QED BY <3>1, <4>1, <4>2, <4>3
      <3> QED BY <3>3 DEF Freed
    <2>3. CASE DeleteModule
      <3>1. module' = IF module.finalizers = {} THEN Absent ELSE [module EXCEPT !.phase = "deleting"]
        BY <2>3 DEF DeleteModule, WriteModule
      <3>2. CASE module.finalizers = {}
        BY <3>1, <3>2, AbsentShape DEF Freed
      <3>3. CASE module.finalizers # {}
        <4>1. /\ ModuleShape(module') /\ module'.finalizers = module.finalizers
              /\ module'.phase = "deleting"
          BY <1>0, <3>1, <3>3 DEF ModuleShape, Phases
        <4> QED BY <4>1 DEF Freed
      <3> QED BY <3>2, <3>3
    <2> QED BY <2>1, <2>2, <2>3
  <1> QED BY <1>1, <1>2, ModuleFrame

(* A change of a selected node that its labels or taints show is an event  *)
(* for the DRA controller.                                                 *)
LEMMA NodeFrame ==
  ASSUME Shape, LeftInv, NEW n \in Nodes, NEW new, UpdateNode(n, new),
         new \in [selected: BOOLEAN, tainted: BOOLEAN, schedule: {new.schedule}, target: SUBSET Roles],
         new.target = node[n].target
  PROVE  Untouched
  <1>0. /\ UNCHANGED <<module, daemonSet, classes, task>> /\ NodeShape /\ queue \subseteq Roles /\ Freed
        /\ node' = [node EXCEPT ![n] = new] /\ queue' = queue \cup NodesEvents(node')
    BY DEF UpdateNode, Shape, LeftInv
  <1>1. /\ node' = [m \in Nodes |-> node'[m]] /\ node'[n] = new
        /\ \A m \in Nodes : m # n => node'[m] = node[m]
    BY <1>0 DEF NodeShape
  <1>2. NodeShape'
    BY <1>0, <1>1 DEF NodeShape
  <1>3. Shape' /\ Freed'
    BY <1>0, <1>2, EventsRoles DEF Shape, Freed, ModuleShape, SetsShape, SetShape, TaskShape
  <1>4. (new.selected \/ node[n].selected) /\ module.phase # "none" /\ node[n] # new => "dra" \in queue'
    <2> SUFFICES ASSUME new.selected \/ node[n].selected, module.phase # "none", node[n] # new
                 PROVE  "dra" \in NodesEvents(node')
      BY <1>0
    <2>1. "dra" \in NodeEvents(node[n], node'[n])
      BY <1>1 DEF NodeEvents, Roles
    <2> QED BY <2>1 DEF NodesEvents
  <1>5. \A s \in Roles : Frame(s)
    BY <1>0, <1>1, <1>4 DEF Frame
  <1> QED BY <1>3, <1>5 DEF Untouched

LEMMA UsersFrame ==
  ASSUME Shape, LeftInv, NEW n \in Nodes,
         RelabelNode(n) \/ TaintNode(n) \/ SchedulePods(n) \/ UnschedulePods(n)
  PROVE  Untouched
  <1>0. NodeShape
    BY DEF Shape
  <1>1. \/ UpdateNode(n, [node[n] EXCEPT !.selected = ~node[n].selected])
        \/ UpdateNode(n, [node[n] EXCEPT !.tainted = ~node[n].tainted])
        \/ \E v : UpdateNode(n, [node[n] EXCEPT !.schedule = v])
    BY DEF RelabelNode, TaintNode, SchedulePods, UnschedulePods, WriteNode
  <1>2. \A v : \A new \in {[node[n] EXCEPT !.selected = ~node[n].selected],
                           [node[n] EXCEPT !.tainted = ~node[n].tainted],
                           [node[n] EXCEPT !.schedule = v]} :
           /\ new \in [selected: BOOLEAN, tainted: BOOLEAN, schedule: {new.schedule}, target: SUBSET Roles]
           /\ new.target = node[n].target
    BY <1>0 DEF NodeShape
  <1> QED BY <1>1, <1>2, NodeFrame

-----------------------------------------------------------------------------
(* The theorems                                                            *)

SectionsInv == Shape /\ LeftInv /\ RestInv

LEMMA SectionsInit == Init => SectionsInv
  <1> SUFFICES ASSUME Init PROVE SectionsInv
    OBVIOUS
  <1>1. module = Absent /\ \A r \in Roles : task[r] = Idle
    BY DEF Init
  <1>2. Shape
    <2>1. NodeShape
      BY DEF Init, NodeShape
    <2>2. SetsShape
      <3>1. daemonSet = [r \in Roles |-> [v \in Versions |-> NoDaemonSet]]
        BY DEF Init
      <3> QED BY <3>1, NoSetShape DEF SetsShape
    <2>3. TaskShape
      <3>1. task = [r \in Roles |-> Idle]
        BY DEF Init
      <3> QED BY <3>1, IdleShape, AbsentShape DEF TaskShape
    <2> QED BY <1>1, <2>1, <2>2, <2>3, AbsentShape DEF Init, Shape
  <1>3. \A r \in Roles : Clean(r)
    <2>1. \A r \in Roles, v \in Versions : daemonSet[r][v] = NoDaemonSet
      BY DEF Init
    <2>2. \A n \in Nodes : node[n].target = {}
      BY DEF Init
    <2> QED BY <2>1, <2>2, NoSetShape DEF Init, Clean
  <1>4. LeftInv
    BY <1>1, <1>3, AbsentShape, IdleShape DEF LeftInv, Freed, HeldInv, Deploying
  <1>5. RestInv
    <2>1. \A r \in Roles : ~Wanted(r)
      BY <1>1, AbsentShape DEF Wanted
    <2> QED BY <1>1, <1>3, <2>1, IdleShape
            DEF RestInv, SectionInv, ClassesCurrent, ModuleCurrent, ListCurrent, Swept, Made, Finalizing,
                Deploying
  <1> QED BY <1>2, <1>4, <1>5 DEF SectionsInv

(* A step is one of a controller, which keeps its own part, or one that    *)
(* leaves both alone.                                                      *)
LEMMA StepKinds ==
  ASSUME SectionsInv, [Next]_vars
  PROVE  Untouched \/ \E r \in Roles : (Controller(r) \/ CallFails(r)) /\ Kept(r)
  <1>1. Shape /\ LeftInv /\ RestInv
    BY DEF SectionsInv
  <1>2. ASSUME NEW r \in Roles, Controller(r) \/ CallFails(r) PROVE Kept(r)
    <2>1. CASE StartReconcile(r)
      BY <1>1, <2>1, StartKeeps
    <2>2. CASE removeTargetLabels(r)
      BY <1>1, <2>2, UntargetKeeps
    <2>3. CASE deleteResources(r)
      BY <1>1, <2>3, DeleteKeeps
    <2>4. CASE removeFinalizer(r)
      BY <1>1, <2>4, ReleaseKeeps
    <2>5. CASE clearStatus(r)
      BY <1>1, <2>5, ClearKeeps
    <2>6. CASE setFinalizer(r)
      BY <1>1, <2>6, FinalizerKeeps
    <2>7. CASE handleTargetLabels(r)
      BY <1>1, <2>7, TargetKeeps
    <2>8. CASE handleDaemonSets(r)
      BY <1>1, <2>8, DaemonSetsKeeps
    <2>9. CASE r = "dra" /\ handleDeviceClasses
      BY <1>1, <2>9, ClassesKeeps
    <2>10. CASE moduleUpdateStatus(r)
      BY <1>1, <2>10, UpdateKeeps
    <2>11. CASE CallFails(r)
      BY <1>1, <2>11, FailKeeps
    <2> QED BY <1>2, <2>1, <2>2, <2>3, <2>4, <2>5, <2>6, <2>7, <2>8, <2>9, <2>10, <2>11 DEF Controller
  <1>3. CASE Cluster \/ Users
    BY <1>1, <1>3, SetStatusFrame, ModuleStatusFrame, WriteFrame, UsersFrame DEF Cluster, Users
  <1>4. CASE UNCHANGED vars
    <2>1. Shape' /\ Freed'
      BY <1>1, <1>4
      DEF vars, Shape, LeftInv, Freed, ModuleShape, NodeShape, SetsShape, SetShape, TaskShape
    <2>2. \A r \in Roles : Frame(r)
      BY <1>4 DEF vars, Frame
    <2> QED BY <2>1, <2>2 DEF Untouched
  <1> QED BY <1>2, <1>3, <1>4 DEF Next

LEMMA SectionsStep == SectionsInv /\ [Next]_vars => SectionsInv'
  <1> SUFFICES ASSUME SectionsInv, [Next]_vars PROVE SectionsInv'
    OBVIOUS
  <1>0. Shape /\ LeftInv /\ RestInv
    BY DEF SectionsInv
  <1>1. ASSUME NEW r \in Roles, Kept(r) PROVE SectionsInv'
    <2>1. \A s \in Roles : HeldInv(s)' /\ SectionInv(s)'
      BY <1>0, <1>1, FrameKeeps DEF Kept, LeftInv, RestInv
    <2> QED BY <1>1, <2>1 DEF Kept, SectionsInv, LeftInv, RestInv
  <1>2. CASE Untouched
    <2>1. \A s \in Roles : HeldInv(s)' /\ SectionInv(s)'
      BY <1>0, <1>2, FrameKeeps DEF Untouched, LeftInv, RestInv
    <2> QED BY <1>2, <2>1 DEF Untouched, SectionsInv, LeftInv, RestInv
  <1> QED BY <1>1, <1>2, StepKinds

(* When the Module is gone, no DaemonSet, target label or DeviceClass of   *)
(* either controller is left, for any nodes and versions: the finalizers   *)
(* (setFinalizer, finalizeModule) hold the Module until each controller    *)
(* has found nothing of its own, whatever failed, whichever ended first,   *)
(* and however often sections and Module came and went.                    *)
THEOREM NothingLeftBehind == Spec => []NoLeftovers
  <1>1. SectionsInv => NoLeftovers
    <2> SUFFICES ASSUME SectionsInv, module.phase = "none"
                 PROVE  /\ \A r \in Roles, v \in Versions : ~daemonSet[r][v].exists
                        /\ \A n \in Nodes : node[n].target = {}
                        /\ classes = {}
      BY DEF NoLeftovers
    <2>1. \A r \in Roles : Clean(r)
      BY DEF SectionsInv, LeftInv, Freed, HeldInv
    <2>2. \A n \in Nodes : node[n].target \in SUBSET Roles
      BY DEF SectionsInv, Shape, NodeShape
    <2> QED BY <2>1, <2>2 DEF Clean, Roles
  <1> QED BY <1>1, SectionsInit, SectionsStep, PTL DEF Spec

(* Whenever the controllers rest, a section the Module has is deployed in  *)
(* its current version, with its DeviceClasses and target labels, and what *)
(* it has not, or no longer, is gone (handleDevicePlugin, handleDRA,       *)
(* garbageCollect, finalizeModule): no change between the list of a        *)
(* Reconcile and what it writes goes unnoticed.                            *)
THEOREM SectionsRightAtRest == Spec => []SectionsRestRight
  <1>1. SectionsInv => SectionsRestRight
    <2> SUFFICES ASSUME SectionsInv, AtRest, NEW r \in Roles
                 PROVE  IF Wanted(r)
                        THEN /\ daemonSet[r][module.version].exists
                             /\ \A v \in Versions \ {module.version} :
                                   daemonSet[r][v].exists => daemonSet[r][v].desired > 0
                             /\ r = "dra" => /\ classes = module.classes
                                             /\ \A n \in Nodes : node[n].selected =>
                                                   ("dra" \in node[n].target <=> ~node[n].tainted)
                        ELSE /\ \A v \in Versions : ~daemonSet[r][v].exists
                             /\ \A n \in Nodes : r \notin node[n].target
                             /\ r = "dra" => classes = {}
      BY DEF SectionsRestRight
    <2>1. task[r].step = "idle" /\ r \notin queue
      BY DEF AtRest, Working
    <2>2. Swept(r) /\ Made(r)
      BY <2>1 DEF SectionsInv, RestInv, SectionInv
    <2>3. CASE Wanted(r)
      BY <2>1, <2>2, <2>3 DEF Made, Sets, Targets
    <2>4. CASE ~Wanted(r)
      BY <2>1, <2>2, <2>4 DEF Swept, Clean
    <2> QED BY <2>3, <2>4
  <1> QED BY <1>1, SectionsInit, SectionsStep, PTL DEF Spec

-----------------------------------------------------------------------------
(* Counts at rest                                                          *)

(* The status has a part for each role, and a DaemonSet that is not there  *)
(* counts for nothing.                                                     *)
StatusFun == module.status = [r \in Roles |-> module.status[r]]

AbsentEmpty ==
    \A r \in Roles, v \in Versions : ~daemonSet[r][v].exists => daemonSet[r][v].available = 0

Plain == StatusFun /\ AbsentEmpty

AvailablePods(r) == SumFunction([v \in Versions |-> daemonSet[r][v].available])

(* The status of a role is the one of now.                                 *)
Counted(r) ==
    IF r \in module.sections
    THEN /\ module.status[r].available = AvailablePods(r)
         /\ r = "dra" => module.status[r].matching = NumTargeted
    ELSE module.status[r] = NoStatus

(* Unless its controller has the Module queued, a Reconcile knows the      *)
(* status it may have to clear and the DaemonSets it counts, and after it  *)
(* the status is right.                                                    *)
CountInv(r) ==
    r \notin queue =>
        /\ task[r].step \in Finalizing => task[r].mod = module
        /\ task[r].step \in Deploying => task[r].existing = daemonSet[r]
        /\ task[r].step = "idle" /\ module.phase = "live" => Counted(r)

CountsInv == SectionsInv /\ Plain /\ \A r \in Roles : CountInv(r)

(* Nobody else changes what the status of a role is made of unseen.        *)
LEMMA FrameCounts ==
  ASSUME NEW r \in Roles, Frame(r), CountInv(r)
  PROVE  CountInv(r)'
  <1> SUFFICES ASSUME r \notin queue'
               PROVE  /\ task'[r].step \in Finalizing => task'[r].mod = module'
                      /\ task'[r].step \in Deploying => task'[r].existing = daemonSet'[r]
                      /\ task'[r].step = "idle" /\ module'.phase = "live" => Counted(r)'
    BY DEF CountInv
  <1>1. /\ r \notin queue /\ task'[r] = task[r] /\ module' = module /\ daemonSet'[r] = daemonSet[r]
    BY DEF Frame
  <1>2. AvailablePods(r)' = AvailablePods(r)
    BY <1>1 DEF AvailablePods
  <1>3. r = "dra" /\ module.phase = "live" => NumTargeted' = NumTargeted
    <2> SUFFICES ASSUME r = "dra", module.phase = "live" PROVE NumTargeted' = NumTargeted
      OBVIOUS
    <2>1. \A n \in Nodes : node'[n].selected \/ node[n].selected =>
              node'[n].selected = node[n].selected /\ node'[n].tainted = node[n].tainted
      BY DEF Frame
    <2>2. {n \in Nodes : node'[n].selected /\ ~node'[n].tainted}
              = {n \in Nodes : node[n].selected /\ ~node[n].tainted}
      BY <2>1
    <2> QED BY <2>2 DEF NumTargeted
  <1>4. module.phase = "live" /\ Counted(r) => Counted(r)'
    BY <1>1, <1>2, <1>3 DEF Counted
  <1> QED BY <1>1, <1>4 DEF CountInv

(* A loop that does not queue its role again is complete, and an end that  *)
(* does not has not failed.                                                *)
LEMMA LoopDone ==
  ASSUME TaskShape, NEW r \in Roles, NEW complete \in BOOLEAN, NEW next \in Steps, NEW changed,
         Loop(r, complete, next, changed), r \notin queue'
  PROVE  complete /\ SameTask(r) /\ task'[r].step = next /\ r \notin queue /\ r \notin changed
  BY LoopEffect

LEMMA EndDone ==
  ASSUME TaskShape, NEW r \in Roles, NEW failed \in BOOLEAN, NEW changed, End(r, failed, changed),
         r \notin queue'
  PROVE  task'[r] = Idle /\ ~failed /\ r \notin queue /\ r \notin changed
  BY EndEffect

(* What a controller's own step does to the counts of its role.            *)
LEMMA StepCounts ==
  ASSUME SectionsInv, StatusFun, NEW r \in Roles, CountInv(r), Kept(r), Controller(r) \/ CallFails(r)
  PROVE  CountInv(r)'
  <1> SUFFICES ASSUME r \notin queue'
               PROVE  /\ task'[r].step \in Finalizing => task'[r].mod = module'
                      /\ task'[r].step \in Deploying => task'[r].existing = daemonSet'[r]
                      /\ task'[r].step = "idle" /\ module'.phase = "live" => Counted(r)'
    BY DEF CountInv
  <1> USE DEF Finalizing, Deploying
  <1>0. /\ TaskShape /\ SectionInv(r) /\ ModuleShape(module) /\ SetsShape
    BY DEF SectionsInv, Shape, RestInv
  <1>1. CASE StartReconcile(r)
    <2>1. UNCHANGED <<module, daemonSet>>
      BY <1>1 DEF StartReconcile
    <2>2. CASE module.phase = "none" \/ NothingOf(r)
      <3>1. task' = [task EXCEPT ![r] = Idle]
        BY <1>1, <2>2 DEF StartReconcile
      <3>3. task'[r] = Idle
        BY <1>0, <3>1 DEF TaskShape
      <3>2. module.phase = "live" => Counted(r)'
        BY <2>1, <2>2 DEF NothingOf, Counted
      <3> QED BY <2>1, <3>2, <3>3, IdleShape
    <2>3. CASE ~(module.phase = "none" \/ NothingOf(r))
      <3>1. \E st \in {"removeTargetLabels", "setFinalizer"} :
                task'[r] = [Idle EXCEPT !.step = st, !.mod = module]
        BY <1>0, <1>1, <2>3 DEF StartReconcile, TaskShape
      <3>2. task'[r].step \in {"removeTargetLabels", "setFinalizer"} /\ task'[r].mod = module
        BY <3>1 DEF Idle
      <3> QED BY <2>1, <3>2
    <2> QED BY <2>2, <2>3
  <1>2. CASE removeTargetLabels(r)
    <2>1. UNCHANGED <<module, daemonSet>>
      BY <1>2 DEF removeTargetLabels
    <2>2. /\ task[r].step = "removeTargetLabels" /\ r \notin queue
          /\ task'[r].step \in {"clearStatus", "deleteResources"} /\ task'[r].mod = task[r].mod
      <3>1. CASE Step(r, "clearStatus") /\ UNCHANGED queue
        BY <1>0, <1>2, <3>1, StepEffect DEF removeTargetLabels, Working, SameTask, Steps
      <3>2. CASE \E done \in SUBSET Nodes : Loop(r, done = Nodes, "deleteResources", NodesEvents(node'))
        <4>1. PICK complete \in BOOLEAN : Loop(r, complete, "deleteResources", NodesEvents(node'))
          BY <3>2
        <4>2. "deleteResources" \in Steps
          BY DEF Steps
        <4>3. SameTask(r) /\ task'[r].step = "deleteResources" /\ r \notin queue
          BY <1>0, <4>1, <4>2, LoopDone
        <4> QED BY <1>2, <4>3 DEF removeTargetLabels, Working, SameTask
      <3> QED BY <1>2, <3>1, <3>2 DEF removeTargetLabels
    <2> QED BY <2>1, <2>2 DEF CountInv
  <1>3. CASE deleteResources(r)
    <2> DEFINE found == ModuleDaemonSets(r)
               foundClasses == ModuleDeviceClasses(r)
               changed(gone, goneClasses) ==
                   (IF gone = {} THEN {} ELSE Roles) \cup (IF goneClasses = {} THEN {} ELSE {"dra"})
    <2>1. PICK gone \in SUBSET found, goneClasses \in SUBSET foundClasses :
               Loop(r, gone = found /\ goneClasses = foundClasses, "clearStatus", changed(gone, goneClasses))
      BY <1>3 DEF deleteResources
    <2>2. found # {} \/ foundClasses # {}
      BY <1>3 DEF deleteResources
    <2>3. foundClasses # {} => r = "dra"
      BY DEF ModuleDeviceClasses
    <2> HIDE DEF found, foundClasses
    <2> DEFINE complete == gone = found /\ goneClasses = foundClasses
               queued == changed(gone, goneClasses)
    <2>4. Loop(r, complete, "clearStatus", queued) /\ complete \in BOOLEAN /\ "clearStatus" \in Steps
      BY <2>1 DEF Steps
    <2>5. complete /\ r \notin queued
      <3> HIDE DEF complete, queued
      <3> QED BY <1>0, <2>4, LoopDone
    <2> QED BY <2>2, <2>3, <2>5
  <1>4. CASE removeFinalizer(r)
    <2>1. /\ Step(r, "clearStatus") /\ UNCHANGED <<module, daemonSet, queue>>
      <3>1. ~End(r, TRUE, {})
        BY DEF End
      <3> QED BY <1>4, <3>1 DEF removeFinalizer
    <2>2. task'[r].step = "clearStatus" /\ task'[r].mod = task[r].mod
      BY <1>0, <2>1, StepEffect DEF Steps, SameTask
    <2> QED BY <1>4, <2>1, <2>2 DEF removeFinalizer, Working, CountInv
  <1>5. CASE clearStatus(r)
    <2>1. /\ task'[r] = Idle /\ module' = module /\ r \notin queue
      <3>1. End(r, FALSE, IF module' = module THEN {} ELSE Roles)
        BY <1>5 DEF clearStatus
      <3> QED BY <1>0, <3>1, EndDone
    <2>2. task[r].step = "clearStatus" /\ task[r].mod = module /\ ~Wanted(r)
      BY <1>0, <1>5, <2>1 DEF clearStatus, Working, CountInv, SectionInv, ModuleCurrent
    <2>3. module.phase = "live" => module.status[r] = NoStatus
      <3> SUFFICES ASSUME module.phase = "live", module.status[r] # NoStatus PROVE FALSE
        OBVIOUS
      <3>1. module' = [module EXCEPT !.status = [module.status EXCEPT ![r] = NoStatus]]
        BY <1>5, <2>2 DEF clearStatus
      <3>2. module'.status[r] = NoStatus
        BY <1>0, <3>1 DEF ModuleShape, StatusFun
      <3> QED BY <2>1, <3>2
    <2>4. module.phase = "live" => Counted(r)'
      BY <2>1, <2>2, <2>3 DEF Wanted, Counted
    <2> QED BY <2>1, <2>4, IdleShape
  <1>6. CASE setFinalizer(r)
    <2>1. /\ task' = [task EXCEPT ![r] = [step |-> "targetLabels", mod |-> SpecOf([task[r].mod EXCEPT !.finalizers = @ \cup {r}]),
                                             existing |-> daemonSet[r],
                                             existingClasses |-> ModuleDeviceClasses(r)]]
          /\ UNCHANGED daemonSet
      <3>1. ~End(r, TRUE, {})
        BY DEF End
      <3> QED BY <1>6, <3>1 DEF setFinalizer
    <2>2. task'[r].step = "targetLabels" /\ task'[r].existing = daemonSet[r]
      BY <1>0, <2>1 DEF TaskShape
    <2> QED BY <2>1, <2>2
  <1>7. CASE handleTargetLabels(r)
    <2>1. PICK done \in SUBSET Nodes : Loop(r, done = Nodes, "daemonSets", NodesEvents(node'))
      BY <1>7 DEF handleTargetLabels
    <2>2. SameTask(r) /\ task'[r].step = "daemonSets" /\ r \notin queue
      <3>1. PICK complete \in BOOLEAN : Loop(r, complete, "daemonSets", NodesEvents(node'))
        BY <2>1
      <3>2. "daemonSets" \in Steps
        BY DEF Steps
      <3> QED BY <1>0, <3>1, <3>2, LoopDone
    <2> QED BY <1>7, <2>2 DEF handleTargetLabels, Working, SameTask, CountInv
  <1>8. CASE handleDaemonSets(r)
    <2> DEFINE next == IF r = "dra" THEN "deviceClasses" ELSE "updateStatus"
    <2>1. PICK gone \in SUBSET Unused(r) :
               Loop(r, gone = Unused(r), next, IF daemonSet' = daemonSet THEN {} ELSE Roles)
      BY <1>8 DEF handleDaemonSets
    <2>2. next \in Steps /\ next \in {"deviceClasses", "updateStatus"}
      BY DEF Steps
    <2> HIDE DEF next
    <2>3. /\ SameTask(r) /\ task'[r].step = next /\ r \notin queue /\ daemonSet' = daemonSet
      <3>1. PICK complete \in BOOLEAN : Loop(r, complete, next, IF daemonSet' = daemonSet THEN {} ELSE Roles)
        BY <2>1
      <3> QED BY <1>0, <2>2, <3>1, LoopDone
    <2> QED BY <1>8, <2>2, <2>3 DEF handleDaemonSets, Working, SameTask, CountInv
  <1>9. CASE r = "dra" /\ handleDeviceClasses
    <2>1. PICK complete \in BOOLEAN :
               Loop("dra", complete, "updateStatus", IF classes' = classes THEN {} ELSE {"dra"})
      BY <1>9 DEF handleDeviceClasses
    <2>2. SameTask(r) /\ task'[r].step = "updateStatus" /\ r \notin queue
      <3>1. "updateStatus" \in Steps
        BY DEF Steps
      <3> QED BY <1>0, <1>9, <2>1, <3>1, LoopDone
    <2> QED BY <1>9, <2>2 DEF handleDeviceClasses, Working, SameTask, CountInv
  <1>10. CASE moduleUpdateStatus(r)
    <2> DEFINE st == [matching |-> NumTargeted, available |-> AvailableNumber(r)]
    <2>1. /\ task'[r] = Idle /\ module' = module /\ r \notin queue /\ module.phase # "none"
      <3> DEFINE changed == IF module' = module THEN {} ELSE Roles
                 failed == ~(module.phase # "none")
      <3>1. End(r, failed, changed) /\ failed \in BOOLEAN
        BY <1>10 DEF moduleUpdateStatus
      <3>2. task'[r] = Idle /\ ~failed /\ r \notin queue /\ r \notin changed
        <4> HIDE DEF changed, failed
        <4> QED BY <1>0, <3>1, EndDone
      <3> QED BY <3>2
    <2>2. task[r].step = "updateStatus" /\ Wanted(r) /\ task[r].existing = daemonSet[r]
      BY <1>0, <1>10, <2>1 DEF moduleUpdateStatus, Working, CountInv, SectionInv, ModuleCurrent
    <2>3. module.status[r] = st
      <3>1. module' = [module EXCEPT !.status = [module.status EXCEPT ![r] = st]]
        BY <1>10, <2>1 DEF moduleUpdateStatus
      <3> HIDE DEF st
      <3>2. module'.status[r] = st
        BY <1>0, <3>1 DEF ModuleShape, StatusFun
      <3> QED BY <2>1, <3>2
    <2>4. AvailableNumber(r) = AvailablePods(r)
      BY <2>2 DEF AvailableNumber, AvailablePods
    <2>5. UNCHANGED <<node, daemonSet>>
      BY <1>10 DEF moduleUpdateStatus
    <2>6. AvailablePods(r)' = AvailablePods(r) /\ NumTargeted' = NumTargeted
      BY <2>5 DEF AvailablePods, NumTargeted
    <2>7. r \in module.sections
      BY <2>2 DEF Wanted
    <2>8. Counted(r)'
      BY <2>1, <2>3, <2>4, <2>6, <2>7 DEF Counted
    <2> QED BY <2>1, <2>8, IdleShape
  <1>11. CASE CallFails(r)
    <2>1. End(r, TRUE, {})
      BY <1>11 DEF CallFails
    <2> QED BY <1>0, <2>1, EndDone
  <1> QED BY <1>1, <1>2, <1>3, <1>4, <1>5, <1>6, <1>7, <1>8, <1>9, <1>10, <1>11 DEF Controller

LEMMA CountsInit == Init => CountsInv
  <1> SUFFICES ASSUME Init PROVE CountsInv
    OBVIOUS
  <1>1. module = Absent /\ \A r \in Roles : task[r] = Idle
    BY DEF Init
  <1>2. StatusFun
    BY <1>1 DEF Absent, StatusFun
  <1>3. AbsentEmpty
    BY DEF Init, AbsentEmpty, NoDaemonSet
  <1>4. \A r \in Roles : CountInv(r)
    BY <1>1, AbsentShape, IdleShape DEF CountInv, Finalizing, Deploying
  <1> QED BY <1>2, <1>3, <1>4, SectionsInit DEF CountsInv, Plain

(* The status keeps a part for each role.                                  *)
LEMMA StatusFunStep == SectionsInv /\ StatusFun /\ [Next]_vars => StatusFun'
  <1> SUFFICES ASSUME SectionsInv, StatusFun, [Next]_vars PROVE StatusFun'
    OBVIOUS
  <1>0. ModuleShape(module)
    BY DEF SectionsInv, Shape
  <1>1. CASE module'.status = module.status
    BY <1>1 DEF StatusFun
  <1>2. CASE module'.status = Absent.status
    BY <1>2 DEF StatusFun, Absent
  <1>3. ASSUME NEW r \in Roles, NEW st, module' = [module EXCEPT !.status[r] = st] PROVE StatusFun'
    <2>1. module'.status = [module.status EXCEPT ![r] = st]
      BY <1>0, <1>3 DEF ModuleShape
    <2> QED BY <2>1 DEF StatusFun
  <1>4. ASSUME NEW r \in Roles, Controller(r) \/ CallFails(r)
        PROVE  \/ module'.status \in {module.status, Absent.status}
               \/ \E st : module' = [module EXCEPT !.status[r] = st]
    <2>1. CASE removeFinalizer(r)
      <3>1. \/ module' \in {module, Absent}
            \/ module' = [module EXCEPT !.finalizers = module.finalizers \ {r}]
        BY <2>1 DEF removeFinalizer
      <3> QED BY <1>0, <3>1 DEF ModuleShape
    <2>2. CASE setFinalizer(r)
      <3>1. \/ module' = module
            \/ module' = [module EXCEPT !.finalizers = module.finalizers \cup {r}]
        BY <2>2 DEF setFinalizer
      <3> QED BY <1>0, <3>1 DEF ModuleShape
    <2>3. CASE clearStatus(r)
      BY <2>3 DEF clearStatus
    <2>4. CASE moduleUpdateStatus(r)
      BY <2>4 DEF moduleUpdateStatus
    <2> QED BY <1>4, <2>1, <2>2, <2>3, <2>4
            DEF Controller, StartReconcile, removeTargetLabels, deleteResources, handleTargetLabels,
                handleDaemonSets, handleDeviceClasses, CallFails
  <1>5. CASE Cluster
    <2>1. module' = module \/ \E x : module' = [module EXCEPT !.matching = x]
      BY <1>5 DEF Cluster, DaemonSetStatus, ModuleStatus
    <2> QED BY <1>0, <1>1, <2>1 DEF ModuleShape
  <1>6. CASE Users
    <2>1. \/ module' = module
          \/ \E s, c : module' = [Absent EXCEPT !.phase = "live", !.sections = s, !.classes = c]
          \/ \E v : module' = [module EXCEPT !.version = v]
          \/ \E s : module' = [module EXCEPT !.sections = s]
          \/ \E c : module' = [module EXCEPT !.classes = c]
          \/ module' \in {Absent, [module EXCEPT !.phase = "deleting"]}
      BY <1>6 DEF Users, CreateModule, EditModule, DeleteModule, WriteModule, RelabelNode, TaintNode,
                  SchedulePods, UnschedulePods, WriteNode, UpdateNode
    <2>2. module'.status = module.status \/ module'.status = Absent.status
      BY <1>0, <2>1 DEF ModuleShape, Absent
    <2> QED BY <1>1, <1>2, <2>2
  <1>7. CASE UNCHANGED vars
    BY <1>1, <1>7 DEF vars
  <1> QED BY <1>1, <1>2, <1>3, <1>4, <1>5, <1>6, <1>7 DEF Next

(* A DaemonSet that is not there has no Pods.                              *)
LEMMA AbsentEmptyStep == SectionsInv /\ AbsentEmpty /\ [Next]_vars => AbsentEmpty'
  <1> SUFFICES ASSUME SectionsInv, AbsentEmpty, [Next]_vars PROVE AbsentEmpty'
    OBVIOUS
  <1>0. SetsShape
    BY DEF SectionsInv, Shape
  <1>1. CASE UNCHANGED daemonSet
    BY <1>1 DEF AbsentEmpty
  <1>2. ASSUME NEW r \in Roles, NEW d, daemonSet' = [daemonSet EXCEPT ![r] = [v \in Versions |-> d[v]]],
               \A v \in Versions : ~d[v].exists => d[v].available = 0
        PROVE  AbsentEmpty'
    <2>1. \A s \in Roles : daemonSet'[s] = IF s = r THEN [v \in Versions |-> d[v]] ELSE daemonSet[s]
      BY <1>0, <1>2 DEF SetsShape
    <2> QED BY <1>2, <2>1 DEF AbsentEmpty
  <1>3. ASSUME NEW r \in Roles, deleteResources(r) PROVE AbsentEmpty'
    <2>1. PICK gone : daemonSet' = [daemonSet EXCEPT ![r] =
                          [v \in Versions |-> IF v \in gone THEN NoDaemonSet ELSE daemonSet[r][v]]]
      BY <1>3 DEF deleteResources
    <2> DEFINE d == [v \in Versions |-> IF v \in gone THEN NoDaemonSet ELSE daemonSet[r][v]]
    <2>2. \A v \in Versions : ~d[v].exists => d[v].available = 0
      BY DEF AbsentEmpty, NoDaemonSet
    <2>3. daemonSet' = [daemonSet EXCEPT ![r] = [v \in Versions |-> d[v]]]
      BY <2>1
    <2> HIDE DEF d
    <2> QED BY <1>2, <2>2, <2>3
  <1>4. ASSUME NEW r \in Roles, handleDaemonSets(r) PROVE AbsentEmpty'
    <2>1. PICK gone \in SUBSET Unused(r) : daemonSet' = [daemonSet EXCEPT ![r] =
                          [v \in Versions |-> CASE v \in gone -> NoDaemonSet
                                               [] v = task[r].mod.version -> Deployed(daemonSet[r][v])
                                               [] OTHER -> daemonSet[r][v]]]
      BY <1>4 DEF handleDaemonSets
    <2> DEFINE d == [v \in Versions |-> CASE v \in gone -> NoDaemonSet
                                         [] v = task[r].mod.version -> Deployed(daemonSet[r][v])
                                         [] OTHER -> daemonSet[r][v]]
    <2>2. \A v \in Versions : d[v] \in {NoDaemonSet, Deployed(daemonSet[r][v]), daemonSet[r][v]}
      <3>1. TAKE v \in Versions
      <3>2. v \in gone => v # task[r].mod.version
        BY DEF Unused, OlderVersionUnused
      <3>3. CASE v \in gone
        BY <3>2, <3>3
      <3>4. CASE v \notin gone /\ v = task[r].mod.version
        BY <3>4
      <3>5. CASE v \notin gone /\ v # task[r].mod.version
        BY <3>5
      <3> QED BY <3>3, <3>4, <3>5
    <2>3. \A v \in Versions : Deployed(daemonSet[r][v]).exists
      BY <1>0 DEF SetsShape, SetShape, Deployed
    <2>4. daemonSet' = [daemonSet EXCEPT ![r] = [v \in Versions |-> d[v]]]
      <3>1. daemonSet' = [daemonSet EXCEPT ![r] = d]
        BY <2>1
      <3>2. d = [v \in Versions |-> d[v]]
        OBVIOUS
      <3> HIDE DEF d
      <3> QED BY <3>1, <3>2
    <2> HIDE DEF d
    <2>5. \A v \in Versions : ~d[v].exists => d[v].available = 0
      BY <2>2, <2>3 DEF AbsentEmpty, NoDaemonSet
    <2> QED BY <1>2, <2>4, <2>5
  <1>5. ASSUME NEW r \in Roles, NEW w \in Versions, DaemonSetStatus(r, w) PROVE AbsentEmpty'
    <2>1. PICK a : daemonSet' = [daemonSet EXCEPT ![r] =
                       [daemonSet[r] EXCEPT ![w] = [exists |-> TRUE, desired |-> Desired(r, w), available |-> a]]]
      BY <1>5 DEF DaemonSetStatus
    <2> DEFINE d == [daemonSet[r] EXCEPT ![w] = [exists |-> TRUE, desired |-> Desired(r, w), available |-> a]]
    <2>2. d = [v \in Versions |-> d[v]] /\ \A v \in Versions : ~d[v].exists => d[v].available = 0
      BY <1>0 DEF SetsShape, AbsentEmpty
    <2> HIDE DEF d
    <2>3. daemonSet' = [daemonSet EXCEPT ![r] = [v \in Versions |-> d[v]]]
      BY <2>1, <2>2 DEF d
    <2> QED BY <1>2, <2>2, <2>3
  <1>6. ASSUME NEW r \in Roles, Controller(r) \/ CallFails(r) PROVE AbsentEmpty'
    BY <1>1, <1>3, <1>4, <1>6
    DEF Controller, StartReconcile, removeTargetLabels, removeFinalizer, clearStatus, setFinalizer,
        handleTargetLabels, handleDeviceClasses, moduleUpdateStatus, CallFails
  <1>7. CASE Cluster \/ Users
    BY <1>1, <1>5, <1>7
    DEF Cluster, ModuleStatus, Users, CreateModule, EditModule, DeleteModule, WriteModule, RelabelNode,
        TaintNode, SchedulePods, UnschedulePods, WriteNode, UpdateNode
  <1>8. CASE UNCHANGED vars
    BY <1>1, <1>8 DEF vars
  <1> QED BY <1>6, <1>7, <1>8 DEF Next

LEMMA CountsStep == CountsInv /\ [Next]_vars => CountsInv'
  <1> SUFFICES ASSUME CountsInv, [Next]_vars PROVE CountsInv'
    OBVIOUS
  <1>1. SectionsInv /\ Plain /\ (\A r \in Roles : CountInv(r))
    BY DEF CountsInv
  <1>2. SectionsInv' /\ Plain'
    BY <1>1, SectionsStep, StatusFunStep, AbsentEmptyStep DEF Plain
  <1>3. CASE Untouched
    BY <1>1, <1>2, <1>3, FrameCounts DEF Untouched, CountsInv
  <1>4. ASSUME NEW r \in Roles, Controller(r) \/ CallFails(r), Kept(r) PROVE CountsInv'
    <2>1. CountInv(r)'
      BY <1>1, <1>4, StepCounts DEF Plain
    <2>2. \A s \in Roles : s # r => CountInv(s)'
      BY <1>1, <1>4, FrameCounts DEF Kept
    <2> QED BY <1>2, <2>1, <2>2 DEF CountsInv
  <1> QED BY <1>1, <1>3, <1>4, StepKinds

(* Whenever the controllers rest, the status of a section counts the Pods  *)
(* of all its DaemonSets, and for DRA the targeted nodes, for any nodes    *)
(* and versions, although moduleUpdateStatus counts DaemonSets listed      *)
(* before it deployed; a removed section has an empty status.              *)
THEOREM CountsRightAtRest == Spec => []CountsRestRight
  <1>1. CountsInv => CountsRestRight
    <2> SUFFICES ASSUME CountsInv, AtRest, module.phase = "live", NEW r \in Roles
                 PROVE  IF r \in module.sections
                        THEN /\ module.status[r].available =
                                    SumFunction([v \in Versions |-> IF daemonSet[r][v].exists
                                                                     THEN Desired(r, v) ELSE 0])
                             /\ r = "dra" => module.status[r].matching = NumTargeted
                        ELSE module.status[r] = NoStatus
      BY DEF CountsRestRight
    <2>1. Counted(r)
      BY DEF CountsInv, CountInv, AtRest, Working
    <2>2. \A v \in Versions : daemonSet[r][v].available = IF daemonSet[r][v].exists THEN Desired(r, v) ELSE 0
      BY DEF CountsInv, Plain, AbsentEmpty, AtRest
    <2>3. [v \in Versions |-> daemonSet[r][v].available]
              = [v \in Versions |-> IF daemonSet[r][v].exists THEN Desired(r, v) ELSE 0]
      BY <2>2
    <2> QED BY <2>1, <2>3 DEF Counted, AvailablePods
  <1> QED BY <1>1, CountsInit, CountsStep, PTL DEF Spec

=============================================================================
