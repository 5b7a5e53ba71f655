------------------------- MODULE VersionLabelsProofs -------------------------
(***************************************************************************)
(* Proofs about VersionLabels: type correctness, and the safety of the     *)
(* ordered upgrade with copies of the Node and of the Pods of any age.     *)
(***************************************************************************)
EXTENDS VersionLabels, TLAPS

------------------------------------------------------------------------------
\* Facts about the decision

\* The table only names the five operations.
LEMMA TableRange ==
    \A a, b, c : labelActionTable(a, b, c) \in Ops
  BY DEF labelActionTable, Ops

\* The Reconcile's decisions are well typed when its copy of the Node is.
LEMMA DecisionType ==
    ASSUME NEW node \in NodeLabels, NEW pods
    PROVE  reconcileLabels(node, pods) \in [Modules -> Decision]
  <1>1. ASSUME NEW m \in Modules
        PROVE  getLabelAndAction(m, node) \in Decision
    <2>1. node.module[m] \in LabelValue
      BY DEF NodeLabels, LabelMap
    <2>2. getLabelAndAction(m, node).op \in Ops
      BY TableRange DEF getLabelAndAction
    <2> QED  BY <2>1, TableRange DEF getLabelAndAction, Decision
  <1>2. NoDecision \in Decision
    BY DEF NoDecision, Decision, Ops, LabelValue
  <1> QED  BY <1>1, <1>2 DEF reconcileLabels

\* What each operation tells about the labels it was decided on.
LEMMA DecisionMeaning ==
    ASSUME NEW node, NEW pods, NEW m \in Modules,
           NEW d, d = reconcileLabels(node, pods)[m]
    PROVE  /\ d.op = "addWorker" =>
                 /\ node.worker[m] = NoVersion
                 /\ d.value = node.module[m]
                 /\ d.value # NoVersion
           /\ d.op = "deleteWorker" =>
                 node.schedule[m] = NoVersion /\ pods[m] = {}
           /\ d.op = "addSchedule" =>
                 /\ node.worker[m] = d.value
                 /\ d.value # NoVersion
           /\ d.op # "none" => d = getLabelAndAction(m, node)
  <1> DEFINE mv == node.module[m]
             w  == labelState(node.worker[m], mv)
             s  == labelState(node.schedule[m], mv)
             g  == getLabelAndAction(m, node)
  <1>1. CASE MustWait(m, node, pods)
    BY <1>1 DEF reconcileLabels, NoDecision
  <1>2. CASE ~MustWait(m, node, pods)
    <2>1. d = g
      BY <1>2 DEF reconcileLabels
    <2>2. g.op = labelActionTable(labelState(mv, mv), w, s) /\ g.value = mv
      BY DEF getLabelAndAction
    <2>3. /\ g.op = "addWorker" => labelState(mv, mv) = "present" /\ w = "missing"
          /\ g.op = "deleteWorker" => s = "missing"
          /\ g.op = "addSchedule" => labelState(mv, mv) = "present" /\ w = "present"
      BY <2>2 DEF labelActionTable
    <2>4. g.op = "deleteWorker" => pods[m] = {}
      BY <1>2 DEF MustWait, verifyLabelDeleteValidity
    <2>5. /\ labelState(mv, mv) = "present" => mv # NoVersion
          /\ w = "missing" => node.worker[m] = NoVersion
          /\ s = "missing" => node.schedule[m] = NoVersion
          /\ w = "present" /\ mv # NoVersion => node.worker[m] = mv
      BY DEF labelState
    <2> QED  BY <2>1, <2>2, <2>3, <2>4, <2>5
  <1> QED  BY <1>1, <1>2

------------------------------------------------------------------------------
\* Type correctness

LEMMA CurrentNodeType ==
    ASSUME moduleLabel \in LabelMap, workerLabel \in LabelMap,
           scheduleLabel \in LabelMap, readyLabel \in SUBSET Modules
    PROVE  currentNode \in NodeLabels
  BY DEF currentNode, NodeLabels

LEMMA InitType == Init => TypeOK
  <1> SUFFICES ASSUME Init PROVE TypeOK
    OBVIOUS
  <1>1. /\ moduleLabel \in LabelMap
        /\ workerLabel \in LabelMap
        /\ scheduleLabel \in LabelMap
        /\ readyLabel \in SUBSET Modules
    BY DEF Init, LabelMap, LabelValue
  <1>2. nodeCache \in NodeLabels
    BY <1>1, CurrentNodeType DEF Init
  <1>3. todo \in [Modules -> Decision]
    BY DEF Init, NoDecision, Decision, Ops, LabelValue
  <1>4. hurried \in SUBSET Modules /\ overtaken \in SUBSET Modules
        /\ missed \in [Modules -> SUBSET Versions]
    BY DEF Init
  <1> QED  BY <1>1, <1>2, <1>3, <1>4 DEF Init, TypeOK

LEMMA NextType == TypeOK /\ [Next]_vars => TypeOK'
  <1> SUFFICES ASSUME TypeOK, [Next]_vars PROVE TypeOK'
    OBVIOUS
  <1> USE DEF TypeOK, history
  <1>1. CASE StartReconcile
    <2>1. reconcileLabels(nodeCache, podCache) \in [Modules -> Decision]
      BY DecisionType
    <2>2. /\ overtaken' \in SUBSET Modules
          /\ missed' \in [Modules -> SUBSET Versions]
          /\ hurried' \in SUBSET Modules
      BY <1>1 DEF StartReconcile, RecordDecision
    <2> QED  BY <1>1, <2>1, <2>2 DEF StartReconcile
  <1>2. CASE updateNodeLabels
    <2>1. ASSUME NEW m \in Modules
          PROVE  /\ PatchedWorker(m, nodeCache) \in LabelValue
                 /\ PatchedSchedule(m, nodeCache) \in LabelValue
      <3>1. todo[m].value \in LabelValue /\ NoVersion \in LabelValue
        BY DEF Decision, LabelValue
      <3>2. workerLabel[m] \in LabelValue /\ scheduleLabel[m] \in LabelValue
        BY DEF LabelMap
      <3> QED  BY <3>1, <3>2 DEF PatchedWorker, PatchedSchedule, Merged
    <2>2. [m \in Modules |-> NoDecision] \in [Modules -> Decision]
      BY DEF NoDecision, Decision, Ops, LabelValue
    <2> QED  BY <1>2, <2>1, <2>2 DEF updateNodeLabels, LabelMap
  <1>3. CASE updateNodeLabelsFails
    <2>1. [m \in Modules |-> NoDecision] \in [Modules -> Decision]
      BY DEF NoDecision, Decision, Ops, LabelValue
    <2> QED  BY <1>3, <2>1 DEF updateNodeLabelsFails
  <1>4. ASSUME NEW m \in Modules, NEW v \in LabelValue, SetModuleLabel(m, v)
        PROVE  TypeOK'
    <2>1. hurried' \in SUBSET Modules
      BY <1>4 DEF SetModuleLabel
    <2> QED  BY <1>4, <2>1 DEF SetModuleLabel, LabelMap
  <1>5. ASSUME NEW m \in Modules, KmodReady(m) \/ KmodUnready(m)
        PROVE  TypeOK'
    BY <1>5 DEF KmodReady, KmodUnready
  <1>6. ASSUME NEW m \in Modules, SchedulePodStarts(m)
        PROVE  TypeOK'
    <2>1. scheduleLabel[m] \in Versions
      BY <1>6 DEF SchedulePodStarts, LabelMap, LabelValue
    <2> QED  BY <1>6, <2>1 DEF SchedulePodStarts
  <1>7. ASSUME NEW m \in Modules, NEW v \in Versions, SchedulePodGone(m, v)
        PROVE  TypeOK'
    BY <1>7 DEF SchedulePodGone
  <1>8. CASE SyncNodeCache
    <2>1. nodeCache' \in NodeLabels
      BY <1>8, CurrentNodeType DEF SyncNodeCache
    <2>2. queued' \in BOOLEAN
      BY <1>8 DEF SyncNodeCache
    <2> QED  BY <1>8, <2>1, <2>2 DEF SyncNodeCache
  <1>9. CASE SyncPodCache
    BY <1>9 DEF SyncPodCache
  <1>10. CASE UNCHANGED vars
    BY <1>10 DEF vars
  <1> QED  BY <1>1, <1>2, <1>3, <1>4, <1>5, <1>6, <1>7, <1>8, <1>9, <1>10
           DEF Next, Controller, Environment

(***************************************************************************)
(* The labels, the caches and the decision of a Reconcile keep their types *)
(* whatever the caches serve.                                              *)
(***************************************************************************)
THEOREM TypeCorrect == Spec => []TypeOK
  <1>1. Init => TypeOK
    BY InitType
  <1>2. TypeOK /\ [Next]_vars => TypeOK'
    BY NextType
  <1> QED  BY <1>1, <1>2, PTL DEF Spec

------------------------------------------------------------------------------
\* Safety of the ordered upgrade

LEMMA InitInv == Init => IInv
  BY InitType DEF Init, IInv, ScheduleWithinWorker, PodsKeepWorkerVersion,
                  CopyClose, TodoFits, OwnWritesSeen, currentNode

\* With an accurate copy, the patch writes what was decided.
LEMMA AccuratePatch ==
    ASSUME NEW m \in Modules, OwnWritesSeen(m)
    PROVE  /\ PatchedWorker(m, nodeCache) =
                CASE todo[m].op = "addWorker"    -> todo[m].value
                  [] todo[m].op = "deleteWorker" -> NoVersion
                  [] OTHER                       -> workerLabel[m]
           /\ PatchedSchedule(m, nodeCache) =
                CASE todo[m].op = "addSchedule"    -> todo[m].value
                  [] todo[m].op = "deleteSchedule" -> NoVersion
                  [] OTHER                         -> scheduleLabel[m]
  BY DEF OwnWritesSeen, PatchedWorker, PatchedSchedule, Merged

\* Whatever the copy, carrying out a decision once more changes nothing.
LEMMA IdlePatch ==
    ASSUME NEW m \in Modules, todo[m].op = "none" \/ Moot(m)
    PROVE  /\ PatchedWorker(m, nodeCache) = workerLabel[m]
           /\ PatchedSchedule(m, nodeCache) = scheduleLabel[m]
  BY DEF Moot, PatchedWorker, PatchedSchedule, Merged

\* Nothing is decided about labels that all agree.
LEMMA NothingToDo ==
    ASSUME NEW node, NEW m \in Modules,
           node.worker[m] = node.module[m], node.schedule[m] = node.module[m]
    PROVE  getLabelAndAction(m, node).op = "none"
  BY DEF getLabelAndAction, labelActionTable, labelState

\* A decision on a copy one patch behind was carried out by that patch.
LEMMA RepeatedDecision ==
    ASSUME IInv, StartReconcile, NEW m \in Modules,
           OnePatchAhead(m), todo'[m].op # "none"
    PROVE  Moot(m)'
  <1>1. /\ todo' = reconcileLabels(nodeCache, podCache)
        /\ UNCHANGED <<workerLabel, scheduleLabel, nodeCache>>
    BY DEF StartReconcile
  <1>2. todo'[m] = getLabelAndAction(m, nodeCache)
    BY <1>1, DecisionMeaning
  <1>3. todo'[m].op \in Ops
    BY NextType DEF IInv, TypeOK, Decision, Next, Controller
  <1> QED  BY <1>1, <1>2, <1>3 DEF Moot, OnePatchAhead, Ops

\* A decision on a copy with the last patch is valid.
LEMMA AccurateDecision ==
    ASSUME IInv, StartReconcile, NEW m \in Modules,
           m \notin overtaken, OwnWritesSeen(m), todo'[m].op # "none"
    PROVE  StillValid(m)'
  <1>1. /\ todo' = reconcileLabels(nodeCache, podCache)
        /\ UNCHANGED <<moduleLabel, workerLabel, scheduleLabel, schedulePods,
                       nodeCache, hurried>>
        /\ missed' = [k \in Modules |->
               IF todo'[k].op = "deleteWorker" THEN schedulePods[k] \ podCache[k]
                                               ELSE missed[k]]
    BY DEF StartReconcile, RecordDecision
  <1>2. todo'[m] = getLabelAndAction(m, nodeCache)
    BY <1>1, DecisionMeaning
  <1>3. OwnWritesSeen(m)'
    BY <1>1 DEF OwnWritesSeen
  <1>4. /\ todo'[m].op = "addWorker" =>
               workerLabel'[m] = NoVersion /\ todo'[m].value # NoVersion
        /\ todo'[m].op = "deleteWorker" =>
               scheduleLabel'[m] = NoVersion /\ podCache[m] = {}
        /\ todo'[m].op = "addSchedule" =>
               workerLabel'[m] = todo'[m].value /\ todo'[m].value # NoVersion
    BY <1>1, DecisionMeaning DEF OwnWritesSeen
  <1>5. todo'[m].op = "deleteWorker" => schedulePods'[m] \subseteq missed'[m]
    BY <1>1, <1>4
  <1>6. m \notin hurried => nodeCache.module[m] = moduleLabel[m]
    <2> SUFFICES ASSUME m \notin hurried, nodeCache.module[m] # moduleLabel[m]
                 PROVE  FALSE
      OBVIOUS
    <2>1. /\ nodeCache.worker[m] = nodeCache.module[m]
          /\ nodeCache.schedule[m] = nodeCache.module[m]
      BY DEF IInv, CopyClose, OwnWritesSeen
    <2> QED  BY <1>2, <2>1, NothingToDo
  <1>7. m \notin hurried' => /\ nodeCache'.module[m] = moduleLabel'[m]
                             /\ todo'[m] = getLabelAndAction(m, nodeCache')
    BY <1>1, <1>2, <1>6
  <1> QED  BY <1>3, <1>4, <1>5, <1>7 DEF StillValid

LEMMA StartInv ==
    ASSUME IInv, StartReconcile, TypeOK'
    PROVE  IInv'
  <1>1. /\ todo' = reconcileLabels(nodeCache, podCache)
        /\ UNCHANGED <<moduleLabel, workerLabel, scheduleLabel, schedulePods,
                       nodeCache, podCache, hurried>>
        /\ missed' = [k \in Modules |->
               IF todo'[k].op = "deleteWorker" THEN schedulePods[k] \ podCache[k]
                                               ELSE missed[k]]
        /\ overtaken' = overtaken \cup
               {k \in hurried : todo'[k].op # "none" /\ ~OwnWritesSeen(k)}
    BY DEF StartReconcile, RecordDecision
  <1>2. ASSUME NEW m \in Modules
        PROVE  /\ missed[m] \subseteq missed'[m]
               /\ missed'[m] \subseteq schedulePods'[m]
    <2>1. missed[m] \subseteq schedulePods[m]
      BY DEF IInv
    <2>2. todo'[m].op = "deleteWorker" => podCache[m] = {}
      BY <1>1, DecisionMeaning
    <2> QED  BY <1>1, <2>1, <2>2
  <1>3. overtaken \subseteq overtaken'
    BY <1>1
  <1>4. ScheduleWithinWorker'
    BY <1>1, <1>3 DEF IInv, ScheduleWithinWorker
  <1>5. PodsKeepWorkerVersion'
    BY <1>1, <1>2, <1>3 DEF IInv, PodsKeepWorkerVersion
  <1>6. CopyClose'
    <2>1. ASSUME NEW m \in Modules
          PROVE  /\ OwnWritesSeen(m)' <=> OwnWritesSeen(m)
                 /\ OnePatchAhead(m)' <=> OnePatchAhead(m)
      BY <1>1 DEF OwnWritesSeen, OnePatchAhead
    <2> QED  BY <1>1, <1>3, <2>1 DEF IInv, CopyClose
  <1>7. TodoFits'
    <2> SUFFICES ASSUME NEW m \in Modules \ overtaken', todo'[m].op # "none"
                 PROVE  Moot(m)' \/ StillValid(m)'
      BY DEF TodoFits
    <2>1. m \notin overtaken
      BY <1>3
    <2>2. CASE OwnWritesSeen(m)
      BY <2>1, <2>2, AccurateDecision
    <2>3. CASE ~OwnWritesSeen(m)
      <3>1. m \notin hurried
        BY <1>1, <2>3
      <3>2. OnePatchAhead(m)
        BY <2>1, <2>3, <3>1 DEF IInv, CopyClose
      <3> QED  BY <3>2, RepeatedDecision
    <2> QED  BY <2>2, <2>3
  <1> QED  BY <1>2, <1>4, <1>5, <1>6, <1>7 DEF IInv

\* What a patch does to a Module that is not overtaken
LEMMA PatchEffect ==
    ASSUME IInv, updateNodeLabels, NEW m \in Modules \ overtaken
    PROVE  \/ workerLabel'[m] = workerLabel[m] /\ scheduleLabel'[m] = scheduleLabel[m]
           \/ /\ StillValid(m)
              /\ todo[m].op # "none"
              /\ workerLabel'[m] =
                    CASE todo[m].op = "addWorker"    -> todo[m].value
                      [] todo[m].op = "deleteWorker" -> NoVersion
                      [] OTHER                       -> workerLabel[m]
              /\ scheduleLabel'[m] =
                    CASE todo[m].op = "addSchedule"    -> todo[m].value
                      [] todo[m].op = "deleteSchedule" -> NoVersion
                      [] OTHER                         -> scheduleLabel[m]
  <1>1. /\ busy
        /\ workerLabel'[m] = PatchedWorker(m, nodeCache)
        /\ scheduleLabel'[m] = PatchedSchedule(m, nodeCache)
    BY DEF updateNodeLabels
  <1>2. CASE todo[m].op = "none" \/ Moot(m)
    BY <1>1, <1>2, IdlePatch
  <1>3. CASE StillValid(m) /\ todo[m].op # "none"
    <2>1. OwnWritesSeen(m)
      BY <1>3 DEF StillValid
    <2> QED  BY <1>1, <1>3, <2>1, AccuratePatch
  <1> QED  BY <1>1, <1>2, <1>3 DEF IInv, TodoFits

LEMMA PatchInv ==
    ASSUME IInv, updateNodeLabels, TypeOK'
    PROVE  IInv'
  <1>1. /\ ~busy'
        /\ UNCHANGED <<moduleLabel, schedulePods, nodeCache, hurried, overtaken, missed>>
    BY DEF updateNodeLabels, history
  <1>2. ASSUME NEW m \in Modules \ overtaken
        PROVE  /\ scheduleLabel'[m] # NoVersion => scheduleLabel'[m] = workerLabel'[m]
               /\ \A v \in schedulePods[m] \ missed[m] : workerLabel'[m] = v
    <2>1. /\ scheduleLabel[m] # NoVersion => scheduleLabel[m] = workerLabel[m]
          /\ \A v \in schedulePods[m] \ missed[m] : workerLabel[m] = v /\ v # NoVersion
      BY NoVersionAssumption DEF IInv, ScheduleWithinWorker, PodsKeepWorkerVersion, TypeOK
    <2>2. CASE workerLabel'[m] = workerLabel[m] /\ scheduleLabel'[m] = scheduleLabel[m]
      BY <2>1, <2>2
    <2>3. todo[m].op \in Ops
      BY DEF IInv, TypeOK, Decision
    <2> QED  BY <2>1, <2>2, <2>3, PatchEffect DEF StillValid, Ops
  <1>3. ASSUME NEW m \in Modules \ (overtaken \cup hurried)
        PROVE  /\ OwnWritesSeen(m)' \/ OnePatchAhead(m)'
               /\ nodeCache.module[m] # moduleLabel[m] =>
                      /\ workerLabel'[m] = nodeCache.module[m]
                      /\ scheduleLabel'[m] = nodeCache.module[m]
    <2>1. CASE workerLabel'[m] = workerLabel[m] /\ scheduleLabel'[m] = scheduleLabel[m]
      <3>1. /\ OwnWritesSeen(m)' <=> OwnWritesSeen(m)
            /\ OnePatchAhead(m)' <=> OnePatchAhead(m)
        BY <1>1, <2>1 DEF OwnWritesSeen, OnePatchAhead
      <3> QED  BY <2>1, <3>1 DEF IInv, CopyClose
    <2>2. CASE ~(workerLabel'[m] = workerLabel[m] /\ scheduleLabel'[m] = scheduleLabel[m])
      <3>1. /\ StillValid(m)
            /\ todo[m] = getLabelAndAction(m, nodeCache)
            /\ nodeCache.module[m] = moduleLabel[m]
            /\ nodeCache.worker[m] = workerLabel[m]
            /\ nodeCache.schedule[m] = scheduleLabel[m]
        BY <2>2, PatchEffect DEF StillValid, OwnWritesSeen
      <3>2. OnePatchAhead(m)'
        BY <1>1, <2>2, <3>1, PatchEffect DEF OnePatchAhead
      <3> QED  BY <3>1, <3>2
    <2> QED  BY <2>1, <2>2
  <1>4. ScheduleWithinWorker' /\ PodsKeepWorkerVersion'
    BY <1>1, <1>2 DEF ScheduleWithinWorker, PodsKeepWorkerVersion
  <1>5. CopyClose'
    BY <1>1, <1>3 DEF CopyClose
  <1> QED  BY <1>1, <1>4, <1>5 DEF IInv, TodoFits

\* A change of the version-module label
LEMMA SetInv ==
    ASSUME IInv, TypeOK', NEW k \in Modules, NEW v \in LabelValue, SetModuleLabel(k, v)
    PROVE  IInv'
  <1>1. /\ UNCHANGED <<workerLabel, scheduleLabel, schedulePods, nodeCache, busy, todo,
                       overtaken, missed>>
        /\ moduleLabel[k] # v
        /\ moduleLabel' = [moduleLabel EXCEPT ![k] = v]
        /\ hurried' = IF ~CarriedOut(k) THEN hurried \cup {k}
                      ELSE IF AtRest(k) THEN hurried \ {k}
                      ELSE hurried
    BY DEF SetModuleLabel
  <1>2. ASSUME NEW m \in Modules
        PROVE  /\ OwnWritesSeen(m)' <=> OwnWritesSeen(m)
               /\ OnePatchAhead(m)' <=> OnePatchAhead(m)
               /\ Moot(m)' <=> Moot(m)
               /\ m # k => moduleLabel'[m] = moduleLabel[m]
               /\ m # k => (m \in hurried' <=> m \in hurried)
    BY <1>1 DEF OwnWritesSeen, OnePatchAhead, Moot, IInv, TypeOK, LabelMap
  <1>3. ASSUME NEW m \in Modules \ (overtaken \cup hurried')
        PROVE  /\ OwnWritesSeen(m) \/ OnePatchAhead(m)
               /\ nodeCache.module[m] # moduleLabel'[m] =>
                      /\ workerLabel[m] = nodeCache.module[m]
                      /\ scheduleLabel[m] = nodeCache.module[m]
    <2>1. CASE m \in hurried
      BY <1>1, <1>2, <2>1 DEF AtRest, CarriedOut
    <2>2. CASE m \notin hurried /\ m # k
      BY <1>2, <2>2 DEF IInv, CopyClose
    <2>3. CASE m \notin hurried /\ m = k
      <3>1. CarriedOut(m)
        BY <1>1, <2>3
      <3>2. nodeCache.module[m] # moduleLabel[m] =>
                workerLabel[m] = nodeCache.module[m]
        BY <2>3 DEF IInv, CopyClose
      <3>3. workerLabel[m] = nodeCache.module[m] /\ scheduleLabel[m] = nodeCache.module[m]
        BY <3>1, <3>2 DEF CarriedOut
      <3> QED  BY <2>3, <3>3 DEF IInv, CopyClose
    <2> QED  BY <2>1, <2>2, <2>3
  <1>4. CopyClose'
    BY <1>1, <1>2, <1>3 DEF CopyClose
  <1>5. TodoFits'
    <2> SUFFICES ASSUME busy, NEW m \in Modules \ overtaken,
                        todo[m].op # "none", ~Moot(m)
                 PROVE  StillValid(m)'
      BY <1>1, <1>2 DEF TodoFits
    <2>1. StillValid(m)
      BY DEF IInv, TodoFits
    <2>2. CASE m = k
      <3>1. m \in hurried'
        <4>1. CASE m \in hurried
          BY <1>1, <4>1 DEF AtRest
        <4>2. CASE m \notin hurried
          <5>1. /\ todo[m] = getLabelAndAction(m, nodeCache)
                /\ nodeCache.module[m] = moduleLabel[m]
                /\ nodeCache.worker[m] = workerLabel[m]
                /\ nodeCache.schedule[m] = scheduleLabel[m]
            BY <2>1, <4>2 DEF StillValid, OwnWritesSeen
          <5>2. ~CarriedOut(m)
            BY <5>1, NothingToDo DEF CarriedOut
          <5> QED  BY <1>1, <2>2, <5>2
        <4> QED  BY <4>1, <4>2
      <3> QED  BY <1>1, <1>2, <2>1, <3>1 DEF StillValid
    <2>3. CASE m # k
      BY <1>1, <1>2, <2>1, <2>3 DEF StillValid
    <2> QED  BY <2>2, <2>3
  <1>6. ScheduleWithinWorker' /\ PodsKeepWorkerVersion'
    BY <1>1 DEF IInv, ScheduleWithinWorker, PodsKeepWorkerVersion
  <1> QED  BY <1>1, <1>4, <1>5, <1>6 DEF IInv

\* The informer delivers the Node.
LEMMA SyncInv ==
    ASSUME IInv, TypeOK', SyncNodeCache
    PROVE  IInv'
  <1>1. /\ UNCHANGED <<moduleLabel, workerLabel, scheduleLabel, schedulePods, busy, todo,
                       hurried, overtaken, missed>>
        /\ nodeCache' = currentNode
    BY DEF SyncNodeCache, history
  <1>2. ASSUME NEW m \in Modules
        PROVE  /\ OwnWritesSeen(m)'
               /\ nodeCache'.module[m] = moduleLabel'[m]
               /\ Moot(m)' <=> Moot(m)
    BY <1>1 DEF OwnWritesSeen, Moot, currentNode
  <1>3. CopyClose'
    BY <1>2 DEF CopyClose
  <1>4. TodoFits'
    <2> SUFFICES ASSUME busy, NEW m \in Modules \ overtaken, StillValid(m)
                 PROVE  StillValid(m)'
      BY <1>1, <1>2 DEF IInv, TodoFits
    <2>1. m \notin hurried => getLabelAndAction(m, nodeCache') = getLabelAndAction(m, nodeCache)
      BY <1>1, <1>2 DEF StillValid, OwnWritesSeen, getLabelAndAction, currentNode
    <2> QED  BY <1>1, <1>2, <2>1 DEF StillValid
  <1>5. ScheduleWithinWorker' /\ PodsKeepWorkerVersion'
    BY <1>1 DEF IInv, ScheduleWithinWorker, PodsKeepWorkerVersion
  <1> QED  BY <1>1, <1>3, <1>4, <1>5 DEF IInv

\* A Pod starts or goes.
LEMMA PodInv ==
    ASSUME IInv, TypeOK', NEW k \in Modules,
           SchedulePodStarts(k) \/ \E v \in Versions : SchedulePodGone(k, v)
    PROVE  IInv'
  <1>1. UNCHANGED <<moduleLabel, workerLabel, scheduleLabel, nodeCache, busy, todo,
                    hurried, overtaken>>
    BY DEF SchedulePodStarts, SchedulePodGone, history
  <1>2. ASSUME NEW m \in Modules
        PROVE  \/ UNCHANGED <<schedulePods[m], missed[m]>>
               \/ /\ scheduleLabel[m] # NoVersion
                  /\ schedulePods'[m] = schedulePods[m] \cup {scheduleLabel[m]}
                  /\ missed'[m] = missed[m]
               \/ \E v \in Versions : /\ schedulePods'[m] = schedulePods[m] \ {v}
                                      /\ missed'[m] = missed[m] \ {v}
    BY DEF SchedulePodStarts, SchedulePodGone, IInv, TypeOK, history
  <1>3. ASSUME NEW m \in Modules
        PROVE  /\ missed'[m] \subseteq schedulePods'[m]
               /\ schedulePods[m] \subseteq missed[m] /\ scheduleLabel[m] = NoVersion
                      => schedulePods'[m] \subseteq missed'[m]
               /\ \A v \in schedulePods'[m] \ missed'[m] :
                      v \in schedulePods[m] \ missed[m]
                      \/ (v = scheduleLabel[m] /\ scheduleLabel[m] # NoVersion)
    BY <1>2 DEF IInv
  <1>4. PodsKeepWorkerVersion'
    BY <1>1, <1>3 DEF IInv, PodsKeepWorkerVersion, ScheduleWithinWorker
  <1>5. ASSUME NEW m \in Modules
        PROVE  /\ OwnWritesSeen(m)' <=> OwnWritesSeen(m)
               /\ OnePatchAhead(m)' <=> OnePatchAhead(m)
               /\ Moot(m)' <=> Moot(m)
    BY <1>1 DEF OwnWritesSeen, OnePatchAhead, Moot
  <1>6. CopyClose'
    BY <1>1, <1>5 DEF IInv, CopyClose
  <1>7. TodoFits'
    <2> SUFFICES ASSUME busy, NEW m \in Modules \ overtaken, StillValid(m)
                 PROVE  StillValid(m)'
      BY <1>1, <1>5 DEF IInv, TodoFits
    <2> QED  BY <1>1, <1>3, <1>5 DEF StillValid
  <1>8. ScheduleWithinWorker'
    BY <1>1 DEF IInv, ScheduleWithinWorker
  <1> QED  BY <1>3, <1>4, <1>6, <1>7, <1>8 DEF IInv

\* The parts of IInv speak of these variables only.
LEMMA FrameInv ==
    ASSUME IInv, TypeOK',
           UNCHANGED <<moduleLabel, workerLabel, scheduleLabel, schedulePods, nodeCache,
                       hurried, overtaken, missed>>,
           UNCHANGED <<busy, todo>> \/ ~busy'
    PROVE  IInv'
  <1>1. ASSUME NEW m \in Modules
        PROVE  /\ OwnWritesSeen(m)' <=> OwnWritesSeen(m)
               /\ OnePatchAhead(m)' <=> OnePatchAhead(m)
               /\ UNCHANGED todo => (Moot(m)' <=> Moot(m))
               /\ UNCHANGED todo => (StillValid(m)' <=> StillValid(m))
    BY DEF OwnWritesSeen, OnePatchAhead, Moot, StillValid
  <1>2. CopyClose'
    BY <1>1 DEF IInv, CopyClose
  <1>3. TodoFits'
    BY <1>1 DEF IInv, TodoFits
  <1> QED  BY <1>2, <1>3 DEF IInv, ScheduleWithinWorker, PodsKeepWorkerVersion

LEMMA NextInv ==
    ASSUME IInv, [Next]_vars
    PROVE  IInv'
  <1>0. TypeOK'
    BY NextType DEF IInv
  <1>1. CASE StartReconcile
    BY <1>0, <1>1, StartInv
  <1>2. CASE updateNodeLabels
    BY <1>0, <1>2, PatchInv
  <1>3. CASE updateNodeLabelsFails
    BY <1>0, <1>3, FrameInv DEF updateNodeLabelsFails, history
  <1>4. ASSUME NEW m \in Modules, NEW v \in LabelValue, SetModuleLabel(m, v)
        PROVE  IInv'
    BY <1>0, <1>4, SetInv
  <1>5. ASSUME NEW m \in Modules, KmodReady(m) \/ KmodUnready(m)
        PROVE  IInv'
    BY <1>0, <1>5, FrameInv DEF KmodReady, KmodUnready, history
  <1>6. ASSUME NEW m \in Modules,
               SchedulePodStarts(m) \/ \E v \in Versions : SchedulePodGone(m, v)
        PROVE  IInv'
    BY <1>0, <1>6, PodInv
  <1>7. CASE SyncNodeCache
    BY <1>0, <1>7, SyncInv
  <1>8. CASE SyncPodCache
    BY <1>0, <1>8, FrameInv DEF SyncPodCache, history
  <1>9. CASE UNCHANGED vars
    BY <1>0, <1>9, FrameInv DEF vars, history
  <1> QED  BY <1>1, <1>2, <1>3, <1>4, <1>5, <1>6, <1>7, <1>8, <1>9
           DEF Next, Controller, Environment

(***************************************************************************)
(* With copies of the Node and of the Pods of any age, and any number of   *)
(* Modules and versions: the schedule label of a Module that is not        *)
(* overtaken never disagrees with its worker label, and a device plugin or *)
(* DRA Pod on the node keeps the worker label at its version unless the    *)
(* list the label was removed on lacked that Pod.                          *)
(***************************************************************************)
THEOREM OrderedUpgradeSafe ==
    Spec => [](ScheduleWithinWorker /\ PodsKeepWorkerVersion)
  <1>1. Init => IInv
    BY InitInv
  <1>2. IInv /\ [Next]_vars => IInv'
    BY NextInv
  <1>3. IInv => ScheduleWithinWorker /\ PodsKeepWorkerVersion
    BY DEF IInv
  <1> QED  BY <1>1, <1>2, <1>3, PTL DEF Spec

\* A step changes the worker label as WorkerLabelStep allows.
LEMMA StepWorker ==
    ASSUME IInv, [Next]_vars
    PROVE  WorkerLabelStep
  <1>1. CASE updateNodeLabels
    <2> SUFFICES ASSUME NEW m \in Modules \ overtaken,
                        workerLabel[m] # NoVersion, workerLabel'[m] # workerLabel[m]
                 PROVE  /\ workerLabel'[m] = NoVersion
                        /\ scheduleLabel[m] = NoVersion
                        /\ schedulePods[m] \subseteq missed[m]
      BY DEF WorkerLabelStep
    <2> QED  BY <1>1, PatchEffect DEF StillValid
  <1>2. CASE UNCHANGED workerLabel
    BY <1>2 DEF WorkerLabelStep
  <1>3. updateNodeLabels \/ UNCHANGED workerLabel
    BY DEF Next, Controller, Environment, StartReconcile, updateNodeLabelsFails,
           SetModuleLabel, KmodReady, KmodUnready, SchedulePodStarts,
           SchedulePodGone, SyncNodeCache, SyncPodCache, vars
  <1> QED  BY <1>1, <1>2, <1>3

(***************************************************************************)
(* The worker label of a Module that is not overtaken is only ever         *)
(* removed, and only with nothing scheduled on the node: the kernel module *)
(* of the old version is unloaded before the new one is asked for.         *)
(***************************************************************************)
THEOREM WorkerNeverJumps == Spec => WorkerVersionNeverJumps
  <1>1. Init => IInv
    BY InitInv
  <1>2. IInv /\ [Next]_vars => IInv'
    BY NextInv
  <1>3. IInv /\ [Next]_vars => [WorkerLabelStep]_vars
    BY StepWorker
  <1> QED  BY <1>1, <1>2, <1>3, PTL DEF Spec, WorkerVersionNeverJumps

------------------------------------------------------------------------------
\* The refinement

\* What a patch does to one Module is one abstract step.
LEMMA PatchStep ==
    ASSUME IInv, updateNodeLabels, NEW m \in Modules \ overtaken
    PROVE  \/ Upgrade!Grant(m) \/ Upgrade!Open(m) \/ Upgrade!Close(m)
           \/ Upgrade!Withdraw(m) \/ Upgrade!UserStops(m)
  <1>1. CountedPods'[m] = CountedPods[m]
    BY DEF updateNodeLabels, CountedPods, history
  <1>2. todo[m].op \in Ops /\ todo[m].value \in LabelValue
    BY DEF IInv, TypeOK, Decision
  <1> USE DEF Upgrade!SameGranted, Upgrade!SameOpen, Upgrade!SameUsers
  <1>3. CASE workerLabel'[m] = workerLabel[m] /\ scheduleLabel'[m] = scheduleLabel[m]
    <2>1. Upgrade!UserStops(m)
      BY <1>1, <1>3 DEF Upgrade!UserStops
    <2> QED  BY <2>1
  <1>4. CASE ~(workerLabel'[m] = workerLabel[m] /\ scheduleLabel'[m] = scheduleLabel[m])
    <2>1. StillValid(m) /\ todo[m].op # "none"
      BY <1>4, PatchEffect
    <2>2. CASE todo[m].op = "addWorker"
      <3>1. workerLabel[m] = NoVersion /\ todo[m].value \in Versions
        BY <1>2, <2>1, <2>2 DEF StillValid, LabelValue
      <3>2. Upgrade!Grant(m)
        BY <1>1, <1>4, <2>2, <3>1, PatchEffect DEF Upgrade!Grant
      <3> QED  BY <3>2
    <2>3. CASE todo[m].op = "deleteWorker"
      <3>1. scheduleLabel[m] = NoVersion /\ CountedPods[m] = {}
        BY <2>1, <2>3 DEF StillValid, CountedPods
      <3>2. Upgrade!Withdraw(m)
        BY <1>1, <1>4, <2>3, <3>1, PatchEffect DEF Upgrade!Withdraw
      <3> QED  BY <3>2
    <2>4. CASE todo[m].op = "addSchedule"
      <3>1. workerLabel[m] = todo[m].value /\ todo[m].value # NoVersion
        BY <2>1, <2>4 DEF StillValid
      <3>2. Upgrade!Open(m)
        BY <1>1, <1>4, <2>4, <3>1, PatchEffect DEF Upgrade!Open
      <3> QED  BY <3>2
    <2>5. CASE todo[m].op = "deleteSchedule"
      <3>1. Upgrade!Close(m)
        BY <1>1, <1>4, <2>5, PatchEffect DEF Upgrade!Close
      <3> QED  BY <3>1
    <2> QED  BY <1>2, <2>1, <2>2, <2>3, <2>4, <2>5 DEF Ops
  <1> QED  BY <1>3, <1>4

\* So is what happens to its Pods, and a list found to lack some of them.
LEMMA PodStep ==
    ASSUME IInv, NEW m \in Modules,
           \/ StartReconcile
           \/ \E k \in Modules : \/ SchedulePodStarts(k)
                                 \/ \E v \in Versions : SchedulePodGone(k, v)
    PROVE  Upgrade!UserStarts(m) \/ Upgrade!UserStops(m)
  <1>1. workerLabel'[m] = workerLabel[m] /\ scheduleLabel'[m] = scheduleLabel[m]
    BY DEF StartReconcile, SchedulePodStarts, SchedulePodGone
  <1>2. missed[m] \subseteq schedulePods[m]
    BY DEF IInv
  <1>3. CASE StartReconcile
    <2>1. /\ todo' = reconcileLabels(nodeCache, podCache)
          /\ schedulePods' = schedulePods
          /\ missed'[m] = IF todo'[m].op = "deleteWorker"
                          THEN schedulePods[m] \ podCache[m] ELSE missed[m]
      BY <1>3 DEF StartReconcile, RecordDecision
    <2>2. todo'[m].op = "deleteWorker" => podCache[m] = {}
      BY <2>1, DecisionMeaning
    <2>3. CountedPods'[m] \subseteq CountedPods[m]
      BY <2>1, <2>2 DEF CountedPods
    <2> QED  BY <1>1, <2>3 DEF Upgrade!UserStops, Upgrade!SameGranted, Upgrade!SameOpen
  <1>4. ASSUME NEW k \in Modules,
               SchedulePodStarts(k) \/ \E v \in Versions : SchedulePodGone(k, v)
        PROVE  \/ CountedPods'[m] \subseteq CountedPods[m]
               \/ /\ scheduleLabel[m] # NoVersion
                  /\ CountedPods'[m] = CountedPods[m] \cup {scheduleLabel[m]}
    <2>1. \/ UNCHANGED <<schedulePods[m], missed[m]>>
          \/ /\ scheduleLabel[m] # NoVersion
             /\ scheduleLabel[m] \notin schedulePods[m]
             /\ schedulePods'[m] = schedulePods[m] \cup {scheduleLabel[m]}
             /\ missed'[m] = missed[m]
          \/ \E v \in Versions : /\ schedulePods'[m] = schedulePods[m] \ {v}
                                 /\ missed'[m] = missed[m] \ {v}
      BY <1>4 DEF SchedulePodStarts, SchedulePodGone, IInv, TypeOK, history
    <2> QED  BY <1>2, <2>1 DEF CountedPods
  <1> QED  BY <1>1, <1>3, <1>4 DEF Upgrade!UserStarts, Upgrade!UserStops,
                                   Upgrade!SameGranted, Upgrade!SameOpen

LEMMA RefinedInit == Init => Upgrade!Init
  BY DEF Init, Upgrade!Init, CountedPods

LEMMA RefinedStep ==
    ASSUME IInv, [Next]_vars
    PROVE  [Upgrade!Next]_Upgrade!vars
  <1>1. CASE updateNodeLabels
    <2>1. overtaken' = overtaken
      BY <1>1 DEF updateNodeLabels, history
    <2> QED  BY <1>1, <2>1, PatchStep DEF Upgrade!Next
  <1>2. CASE \/ StartReconcile
             \/ \E k \in Modules : \/ SchedulePodStarts(k)
                                   \/ \E v \in Versions : SchedulePodGone(k, v)
    <2>1. overtaken \subseteq overtaken'
      BY <1>2 DEF StartReconcile, RecordDecision, SchedulePodStarts, SchedulePodGone, history
    <2> QED  BY <1>2, <2>1, PodStep DEF Upgrade!Next
  <1>3. CASE UNCHANGED <<workerLabel, scheduleLabel, schedulePods, missed, overtaken>>
    BY <1>3 DEF Upgrade!vars, CountedPods
  <1>4. \/ updateNodeLabels
        \/ StartReconcile
        \/ \E k \in Modules : \/ SchedulePodStarts(k)
                              \/ \E v \in Versions : SchedulePodGone(k, v)
        \/ UNCHANGED <<workerLabel, scheduleLabel, schedulePods, missed, overtaken>>
    BY DEF Next, Controller, Environment, updateNodeLabelsFails, SetModuleLabel,
           KmodReady, KmodUnready, SyncNodeCache, SyncPodCache, vars, history
  <1> QED  BY <1>1, <1>2, <1>3, <1>4

(***************************************************************************)
(* The label controller implements OrderedUpgrade for any number of        *)
(* Modules and versions and copies of any age: every step of Reconcile, of *)
(* the administrator and of the caches is, for each Module not overtaken,  *)
(* one grant, opening, closing or withdrawal, or none.                     *)
(***************************************************************************)
THEOREM Refinement == Spec => ImplementsUpgrade
  <1>1. Init => IInv
    BY InitInv
  <1>2. IInv /\ [Next]_vars => IInv'
    BY NextInv
  <1>3. Init => Upgrade!Init
    BY RefinedInit
  <1>4. IInv /\ [Next]_vars => [Upgrade!Next]_Upgrade!vars
    BY RefinedStep
  <1> QED  BY <1>1, <1>2, <1>3, <1>4, PTL DEF Spec, ImplementsUpgrade, Upgrade!Spec
==============================================================================
