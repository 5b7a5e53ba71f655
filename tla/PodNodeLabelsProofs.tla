------------------------- MODULE PodNodeLabelsProofs -------------------------
(***************************************************************************)
(* Proofs about PodNodeLabels for any Pods, nodes and roles: the types,    *)
(* that no ready label outlives the last Pod that could remove it, and     *)
(* that the labels are right whenever the controller rests.                *)
(***************************************************************************)
EXTENDS PodNodeLabels, TLAPS

(* What a Pod that is being reconciled keeps: only the Reconcile itself    *)
(* removes it, and it does not change nodes.                               *)
TaskPodThere ==
    \A p \in Pods : (task.step # "idle" /\ task.name = {p}) =>
        /\ pod[p].exists
        /\ task.pod.node # None => pod[p].node = task.pod.node

(* Another Pod of the role of p is on node n.                              *)
OtherPod(p, n) ==
    \E q \in Pods : q # p /\ pod[q].exists /\ pod[q].node = n /\ RoleOf[q] = RoleOf[p]

(* When the finalizer is about to go, so is the label, or another Pod will *)
(* take it away.                                                           *)
FinalizerLast ==
    \A p \in Pods : (task.step = "deleteFinalizer" /\ task.name = {p}) =>
        \A n \in Nodes : task.pod.node = n => RoleOf[p] \notin label[n] \/ OtherPod(p, n)

(* The labels of a Node go with it.                                        *)
GoneUnlabelled == \A n \in Nodes \ nodes : label[n] = {}

IInv ==
    /\ TypeOK
    /\ LabelHasPod
    /\ TaskPodThere
    /\ FinalizerLast
    /\ GoneUnlabelled

-----------------------------------------------------------------------------
(* Types                                                                   *)

(* Every step of the controller and the cluster keeps the types.           *)
LEMMA TypeStep == TypeOK /\ [Next]_vars => TypeOK'
<1> SUFFICES ASSUME TypeOK, [Next]_vars PROVE TypeOK'
  OBVIOUS
<1> USE PodNodeLabelsAssumption
<1>1. CASE UNCHANGED vars
  BY <1>1 DEF TypeOK, vars
<1>2. ASSUME NEW p \in Pods, StartReconcile(p) PROVE TypeOK'
  <2>1. pod[p] \in PodObject
    BY DEF TypeOK
  <2>2. task' \in [step: Steps, pod: PodObject, name: SUBSET Pods]
    <3>1. \A s \in Steps : [step |-> s, pod |-> pod[p], name |-> {p}]
                               \in [step: Steps, pod: PodObject, name: SUBSET Pods]
      BY <2>1
    <3>2. Idle \in [step: Steps, pod: PodObject, name: SUBSET Pods]
      BY DEF Idle, NoPod, PodObject, Steps
    <3>3. \/ task' = Idle
          \/ \E s \in Steps : task' = [step |-> s, pod |-> pod[p], name |-> {p}]
      BY <1>2 DEF StartReconcile, Steps, Running
    <3> QED BY <3>1, <3>2, <3>3
  <2> QED BY <1>2, <2>2 DEF StartReconcile, TypeOK
<1>3. ASSUME NEW p \in Pods, addLabel(p) PROVE TypeOK'
  BY <1>3 DEF addLabel, End, Idle, NoPod, PodObject, Steps, TypeOK
<1>4. ASSUME NEW p \in Pods, deleteLabel(p) PROVE TypeOK'
  BY <1>4 DEF deleteLabel, Idle, NoPod, PodObject, Steps, TypeOK
<1>5. ASSUME NEW p \in Pods, deleteFinalizer(p) PROVE TypeOK'
  BY <1>5 DEF deleteFinalizer, End, Idle, NoPod, PodObject, Steps, TypeOK
<1>6. ASSUME NEW p \in Pods, CallFails(p) PROVE TypeOK'
  BY <1>6 DEF CallFails, End, Idle, NoPod, PodObject, Steps, TypeOK
<1>7. ASSUME NEW p \in Pods, NEW n \in PodObject, UpdatePod(p, n), nodes' = nodes,
             flaps' = flaps \/ Flap
      PROVE  TypeOK'
  <2>1. pod' \in [Pods -> PodObject] /\ queue' \subseteq Pods
    BY <1>7 DEF UpdatePod, TypeOK
  <2>2. flaps' \in 0..MaxFlaps
    BY <1>7 DEF Flap, TypeOK
  <2> QED BY <1>7, <2>1, <2>2 DEF UpdatePod, TypeOK
<1>8. ASSUME NEW p \in Pods, CreatePod(p) PROVE TypeOK'
  <2>1. [NoPod EXCEPT !.exists = TRUE] \in PodObject
    BY DEF NoPod, PodObject
  <2> QED BY <1>7, <1>8, <2>1 DEF CreatePod
<1>9. ASSUME NEW p \in Pods, NEW n \in Nodes, SchedulePod(p, n) PROVE TypeOK'
  <2>1. [pod[p] EXCEPT !.node = n] \in PodObject
    BY DEF TypeOK, PodObject
  <2> QED BY <1>7, <1>9, <2>1 DEF SchedulePod
<1>10. ASSUME NEW p \in Pods, BecomeReady(p) \/ BecomeUnready(p) \/ DeletePod(p) PROVE TypeOK'
  <2>1. /\ [pod[p] EXCEPT !.ready = TRUE] \in PodObject
        /\ [pod[p] EXCEPT !.ready = FALSE] \in PodObject
        /\ [pod[p] EXCEPT !.deleting = TRUE] \in PodObject
    BY DEF TypeOK, PodObject
  <2> QED BY <1>7, <1>10, <2>1 DEF BecomeReady, BecomeUnready, DeletePod
<1>11. ASSUME NEW n \in Nodes, RemoveNode(n) PROVE TypeOK'
  BY <1>11 DEF RemoveNode, Flap, TypeOK
<1> QED
  BY <1>1, <1>2, <1>3, <1>4, <1>5, <1>6, <1>8, <1>9, <1>10, <1>11
     DEF Next, Controller, Cluster

(* So does the initial state.                                              *)
LEMMA TypeInit == Init => TypeOK
BY PodNodeLabelsAssumption DEF Init, TypeOK, NoPod, PodObject, Idle, Steps

(* The Pod node label controller keeps its types for any Pods, nodes and   *)
(* roles.                                                                  *)
THEOREM TypeCorrect == Spec => []TypeOK
<1>1. Init => TypeOK
  BY TypeInit
<1>2. TypeOK /\ [Next]_vars => TypeOK'
  BY TypeStep
<1> QED BY <1>1, <1>2, PTL DEF Spec

-----------------------------------------------------------------------------
(* The life of a label                                                     *)

(* A step that only changes Pods, and neither removes one nor moves one    *)
(* that has a node, keeps the invariant.                                   *)
LEMMA PodsStay ==
    ASSUME IInv, TypeOK', UNCHANGED <<label, task>>,
           nodes' = nodes,
           \A q \in Pods : /\ pod[q].exists => pod'[q].exists
                           /\ pod[q].exists /\ pod[q].node # None => pod'[q].node = pod[q].node
    PROVE  IInv'
<1> USE PodNodeLabelsAssumption
<1>1. LabelHasPod'
  BY DEF IInv, LabelHasPod, TypeOK
<1>2. TaskPodThere'
  BY DEF IInv, TaskPodThere
<1>3. FinalizerLast'
  BY DEF IInv, FinalizerLast, OtherPod
<1>4. GoneUnlabelled'
  BY DEF IInv, GoneUnlabelled
<1> QED BY <1>1, <1>2, <1>3, <1>4 DEF IInv

(* Between two Reconciles nothing is promised.                             *)
LEMMA IdleEnds ==
    ASSUME IInv, TypeOK', LabelHasPod', GoneUnlabelled', task' = Idle
    PROVE  IInv'
BY DEF IInv, TaskPodThere, FinalizerLast, Idle

(* A Reconcile starts with a Pod that is there; it goes straight to the    *)
(* finalizer only if the Pod has no node or another one is ready on it.    *)
LEMMA StartStep ==
    ASSUME IInv, TypeOK', NEW p \in Pods, StartReconcile(p)
    PROVE  IInv'
<1> USE PodNodeLabelsAssumption
<1> DEFINE found == \E q \in Pods : /\ RoleOf[q] = RoleOf[p] /\ pod[q].node = pod[p].node
                                    /\ Running(q)
<1>1. \/ task' = Idle
      \/ /\ pod[p].exists /\ task'.pod = pod[p] /\ task'.name = {p}
         /\ task'.step = "deleteFinalizer" => ~Running(p) /\ (pod[p].node = None \/ found)
  BY DEF StartReconcile, Running
<1>2. pod' = pod /\ label' = label /\ nodes' = nodes
  BY DEF StartReconcile
<1>3. LabelHasPod' /\ GoneUnlabelled'
  BY <1>2 DEF IInv, LabelHasPod, GoneUnlabelled
<1>4. CASE task' = Idle
  BY <1>3, <1>4, IdleEnds
<1>5. CASE /\ pod[p].exists /\ task'.pod = pod[p] /\ task'.name = {p}
           /\ task'.step = "deleteFinalizer" => ~Running(p) /\ (pod[p].node = None \/ found)
  <2>1. TaskPodThere'
    BY <1>2, <1>5 DEF TaskPodThere
  <2>2. FinalizerLast'
    <3> SUFFICES ASSUME task'.step = "deleteFinalizer", NEW n \in Nodes, pod[p].node = n
                 PROVE  OtherPod(p, n)'
      BY <1>5 DEF FinalizerLast
    <3>1. PICK q \in Pods : RoleOf[q] = RoleOf[p] /\ pod[q].node = pod[p].node /\ Running(q)
      BY <1>5
    <3>2. q # p /\ pod[q].exists
      BY <1>5, <3>1 DEF Running
    <3> QED BY <1>2, <3>1, <3>2 DEF OtherPod
  <2> QED BY <1>3, <2>1, <2>2 DEF IInv
<1> QED BY <1>1, <1>4, <1>5

(* A label is added for a Pod that is on the node.                         *)
LEMMA AddStep ==
    ASSUME IInv, TypeOK', NEW p \in Pods, addLabel(p)
    PROVE  IInv'
<1> USE PodNodeLabelsAssumption
<1>1. task' = Idle /\ pod' = pod /\ nodes' = nodes
  BY DEF addLabel, End
<1>2. LabelHasPod'
  <2> SUFFICES ASSUME NEW n \in Nodes, NEW r \in label'[n]
               PROVE  \E q \in Pods : pod[q].exists /\ pod[q].node = n /\ RoleOf[q] = r
    BY <1>1 DEF LabelHasPod
  <2>1. CASE r \in label[n]
    BY <2>1 DEF IInv, LabelHasPod
  <2>2. CASE r \notin label[n]
    <3>1. n = task.pod.node /\ r = RoleOf[p]
      BY <2>2 DEF addLabel, IInv, TypeOK
    <3>2. pod[p].exists /\ pod[p].node = n
      BY <3>1 DEF addLabel, IInv, TaskPodThere
    <3> QED BY <3>1, <3>2
  <2> QED BY <2>1, <2>2
<1>3. GoneUnlabelled'
  BY <1>1 DEF addLabel, IInv, GoneUnlabelled, TypeOK
<1> QED BY <1>1, <1>2, <1>3, IdleEnds

(* After it the role of the Pod is not on its node, and the finalizer may  *)
(* follow.                                                                 *)
LEMMA DeleteLabelStep ==
    ASSUME IInv, TypeOK', NEW p \in Pods, deleteLabel(p)
    PROVE  IInv'
<1> USE PodNodeLabelsAssumption
<1>1. pod' = pod /\ nodes' = nodes /\ task.name = {p}
  BY DEF deleteLabel
<1>2. \A n \in Nodes : label'[n] \subseteq label[n]
  BY DEF deleteLabel, IInv, TypeOK
<1>3. LabelHasPod' /\ GoneUnlabelled'
  BY <1>1, <1>2 DEF IInv, LabelHasPod, GoneUnlabelled
<1>4. CASE task' = Idle
  BY <1>3, <1>4, IdleEnds
<1>5. CASE task' = [task EXCEPT !.step = "deleteFinalizer"]
  <2>1. task'.name = {p} /\ task'.pod = task.pod /\ task.step # "idle"
    BY <1>5 DEF deleteLabel, IInv, TypeOK
  <2>2. TaskPodThere'
    BY <1>1, <2>1 DEF IInv, TaskPodThere
  <2>3. \A n \in Nodes : task.pod.node = n => RoleOf[p] \notin label'[n]
    BY DEF deleteLabel, IInv, GoneUnlabelled, TypeOK
  <2>4. FinalizerLast'
    BY <2>1, <2>3 DEF FinalizerLast
  <2> QED BY <1>3, <2>2, <2>4 DEF IInv
<1> QED BY <1>4, <1>5 DEF deleteLabel

(* The Pod that goes is not the last one under a label of its role.        *)
LEMMA DeleteFinalizerStep ==
    ASSUME IInv, TypeOK', NEW p \in Pods, deleteFinalizer(p)
    PROVE  IInv'
<1> USE PodNodeLabelsAssumption
<1>1. task' = Idle /\ label' = label /\ nodes' = nodes
  BY DEF deleteFinalizer, End
<1>2. GoneUnlabelled'
  BY <1>1 DEF IInv, GoneUnlabelled
<1>3. LabelHasPod'
  <2> SUFFICES ASSUME NEW n \in Nodes, NEW r \in label[n]
               PROVE  \E q \in Pods : pod'[q].exists /\ pod'[q].node = n /\ RoleOf[q] = r
    BY <1>1 DEF LabelHasPod
  <2>1. PICK q \in Pods : pod[q].exists /\ pod[q].node = n /\ RoleOf[q] = r
    BY DEF IInv, LabelHasPod
  <2>2. CASE pod' = pod
    BY <2>1, <2>2
  <2>3. CASE pod' = [pod EXCEPT ![p] = NoPod] /\ q # p
    BY <2>1, <2>3 DEF IInv, TypeOK
  <2>4. CASE pod' = [pod EXCEPT ![p] = NoPod] /\ pod' # pod /\ q = p
    <3>1. pod[p] = task.pod
      BY <2>4, <2>1 DEF deleteFinalizer
    <3>2. OtherPod(p, n)
      BY <2>1, <2>4, <3>1 DEF deleteFinalizer, IInv, FinalizerLast
    <3> QED BY <2>1, <2>4, <3>2 DEF OtherPod, IInv, TypeOK
  <2> QED BY <2>2, <2>3, <2>4 DEF deleteFinalizer
<1> QED BY <1>1, <1>2, <1>3, IdleEnds

(* A removed Node takes its labels with it.                                *)
LEMMA RemoveNodeStep ==
    ASSUME IInv, TypeOK', NEW n \in Nodes, RemoveNode(n)
    PROVE  IInv'
<1>1. pod' = pod /\ task' = task /\ nodes' = nodes \ {n}
  BY DEF RemoveNode
<1>2. \A k \in Nodes : label'[k] \subseteq label[k] /\ (k = n => label'[k] = {})
  BY DEF RemoveNode, IInv, TypeOK
<1>3. LabelHasPod' /\ GoneUnlabelled'
  BY <1>1, <1>2 DEF IInv, LabelHasPod, GoneUnlabelled
<1>4. TaskPodThere'
  BY <1>1 DEF IInv, TaskPodThere
<1>5. FinalizerLast'
  BY <1>1, <1>2 DEF IInv, FinalizerLast, OtherPod
<1> QED BY <1>3, <1>4, <1>5 DEF IInv

(* Every step of the controller, the Pods and the Nodes keeps IInv.        *)
LEMMA IInvStep == IInv /\ [Next]_vars => IInv'
<1> SUFFICES ASSUME IInv, [Next]_vars PROVE IInv'
  OBVIOUS
<1> USE PodNodeLabelsAssumption
<1>0. TypeOK'
  BY TypeStep DEF IInv
<1>1. CASE UNCHANGED vars
  BY <1>0, <1>1, PodsStay DEF vars
<1>2. ASSUME NEW p \in Pods,
             StartReconcile(p) \/ addLabel(p) \/ deleteLabel(p) \/ deleteFinalizer(p)
      PROVE  IInv'
  BY <1>0, <1>2, StartStep, AddStep, DeleteLabelStep, DeleteFinalizerStep
<1>3. ASSUME NEW p \in Pods, CallFails(p) PROVE IInv'
  <2>1. LabelHasPod' /\ GoneUnlabelled' /\ task' = Idle
    BY <1>3 DEF CallFails, End, IInv, LabelHasPod, GoneUnlabelled
  <2> QED BY <1>0, <2>1, IdleEnds
<1>4. ASSUME NEW p \in Pods,
             CreatePod(p) \/ BecomeReady(p) \/ BecomeUnready(p) \/ DeletePod(p)
      PROVE  IInv'
  <2>1. UNCHANGED <<label, task>> /\ nodes' = nodes
    BY <1>4 DEF CreatePod, BecomeReady, BecomeUnready, DeletePod, UpdatePod
  <2>2. \A q \in Pods : /\ pod[q].exists => pod'[q].exists
                        /\ pod[q].exists /\ pod[q].node # None => pod'[q].node = pod[q].node
    <3>1. CASE CreatePod(p)
      BY <3>1 DEF CreatePod, UpdatePod, NoPod, IInv, TypeOK, PodObject
    <3>2. CASE BecomeReady(p)
      BY <3>2 DEF BecomeReady, UpdatePod, IInv, TypeOK, PodObject
    <3>3. CASE BecomeUnready(p)
      BY <3>3 DEF BecomeUnready, UpdatePod, IInv, TypeOK, PodObject
    <3>4. CASE DeletePod(p)
      BY <3>4 DEF DeletePod, UpdatePod, IInv, TypeOK, PodObject
    <3> QED BY <1>4, <3>1, <3>2, <3>3, <3>4
  <2> QED BY <1>0, <2>1, <2>2, PodsStay
<1>5. ASSUME NEW p \in Pods, NEW n \in Nodes, SchedulePod(p, n) PROVE IInv'
  <2>1. UNCHANGED <<label, task>> /\ nodes' = nodes
    BY <1>5 DEF SchedulePod, UpdatePod
  <2>2. \A q \in Pods : /\ pod[q].exists => pod'[q].exists
                        /\ pod[q].exists /\ pod[q].node # None => pod'[q].node = pod[q].node
    BY <1>5 DEF SchedulePod, UpdatePod, IInv, TypeOK, PodObject
  <2> QED BY <1>0, <2>1, <2>2, PodsStay
<1>6. ASSUME NEW n \in Nodes, RemoveNode(n) PROVE IInv'
  BY <1>0, <1>6, RemoveNodeStep
<1> QED BY <1>1, <1>2, <1>3, <1>4, <1>5, <1>6 DEF Next, Controller, Cluster

(* A ready label never outlives the last Pod that could remove it, for any *)
(* number of Pods, versions and nodes, failing calls and removed Nodes:    *)
(* the controller takes its finalizer off a Pod only after the label of    *)
(* its role, or beside another Pod that will take it away.                 *)
THEOREM LabelsHavePods == Spec => []LabelHasPod
<1>1. Init => IInv
  BY TypeInit DEF Init, IInv, LabelHasPod, TaskPodThere, FinalizerLast, GoneUnlabelled, Idle
<1>2. IInv /\ [Next]_vars => IInv'
  BY IInvStep
<1>3. IInv => LabelHasPod
  BY DEF IInv
<1> QED BY <1>1, <1>2, <1>3, PTL DEF Spec

-----------------------------------------------------------------------------
(* The labels at rest                                                      *)

(* p is on node n and has the role r.                                      *)
On(p, r, n) == pod[p].exists /\ pod[p].node = n /\ RoleOf[p] = r

(* The Reconcile of p is at step, for node n.                              *)
At(step, p, n) == task.step = step /\ task.name = {p} /\ task.pod.node = n

(* Only a Pod that has a node is ready.                                    *)
ReadyPlaced == \A p \in Pods : pod[p].ready => pod[p].exists /\ pod[p].node \in Nodes

(* A running Pod whose role is not on its node is about to put it there.   *)
LabelOwed ==
    \A p \in Pods, n \in nodes :
        (Running(p) /\ pod[p].node = n /\ RoleOf[p] \notin label[n])
            => p \in queue \/ At("addLabel", p, n)

(* A label without a running Pod has a Pod on the node that is about to    *)
(* take it away.                                                           *)
RemovalOwed ==
    \A n \in nodes, r \in Roles :
        (r \in label[n] /\ \A p \in Pods : On(p, r, n) => ~Running(p))
            => \E p \in Pods : On(p, r, n) /\ (p \in queue \/ At("deleteLabel", p, n))

(* What was read when the Reconcile started is still so, or the Pod that   *)
(* changed is queued again: one that is to be labelled is running, and     *)
(* where a label is to go no Pod is.                                       *)
ReadOrQueued ==
    \A p \in Pods, n \in Nodes :
        /\ At("addLabel", p, n) => Running(p) \/ p \in queue
        /\ At("deleteLabel", p, n) =>
               \A q \in Pods : On(q, RoleOf[p], n) /\ Running(q) => q \in queue

(* The Pod that makes it right to leave a label behind is running, or will *)
(* be looked at again.                                                     *)
OtherCares ==
    \A p \in Pods, n \in Nodes : At("deleteFinalizer", p, n) =>
        \/ RoleOf[p] \notin label[n]
        \/ \E q \in Pods : q # p /\ On(q, RoleOf[p], n) /\ (Running(q) \/ q \in queue)

RestInv ==
    /\ IInv
    /\ ReadyPlaced
    /\ LabelOwed
    /\ RemovalOwed
    /\ ReadOrQueued
    /\ OtherCares

(* A step that changes at most Pod p, and queues it unless it is neither   *)
(* ready before nor after, keeps what is owed.                             *)
LEMMA PodChangeQueued ==
    ASSUME RestInv, IInv', UNCHANGED <<label, task, nodes>>, NEW p \in Pods,
           queue \subseteq queue',
           \A q \in Pods : q # p => pod'[q] = pod[q],
           pod[p].exists => pod'[p].exists,
           pod[p].exists /\ pod[p].node # None => pod'[p].node = pod[p].node,
           pod'[p].ready => pod'[p].exists /\ pod'[p].node \in Nodes,
           p \in queue' \/ (~pod[p].ready /\ ~pod'[p].ready)
    PROVE  RestInv'
<1> USE PodNodeLabelsAssumption
<1>1. \A q \in Pods, n \in Nodes, r \in Roles : On(q, r, n) => On(q, r, n)'
  BY DEF On
<1>2. \A q \in Pods : q \in queue' \/ (Running(q)' <=> Running(q))
  BY DEF Running
<1>3. \A q \in Pods, n \in Nodes, step \in Steps : At(step, q, n)' <=> At(step, q, n)
  BY DEF At
<1>t. nodes \subseteq Nodes /\ \A q \in Pods : RoleOf[q] \in Roles
  BY DEF RestInv, IInv, TypeOK
<1>4. ReadyPlaced'
  BY DEF RestInv, ReadyPlaced
<1>5. LabelOwed'
  <2> SUFFICES ASSUME NEW q \in Pods, NEW n \in nodes, Running(q)', pod'[q].node = n,
                      RoleOf[q] \notin label[n], q \notin queue'
               PROVE  At("addLabel", q, n)'
    BY DEF LabelOwed
  <2>1. Running(q) /\ q \notin queue
    BY <1>2
  <2>2. pod[q].node = n
    <3>1. pod[q].exists /\ pod[q].node \in Nodes
      BY <2>1 DEF RestInv, ReadyPlaced, Running
    <3> QED BY <3>1
  <2>3. At("addLabel", q, n)
    BY <2>1, <2>2 DEF RestInv, LabelOwed
  <2> QED BY <2>3, <1>3, <1>t DEF Steps
<1>6. RemovalOwed'
  <2> SUFFICES ASSUME NEW n \in nodes, NEW r \in Roles, r \in label[n],
                      \A q \in Pods : On(q, r, n)' => ~Running(q)'
               PROVE  \E q \in Pods : On(q, r, n)' /\ (q \in queue' \/ At("deleteLabel", q, n)')
    BY DEF RemovalOwed
  <2>1. CASE \A q \in Pods : On(q, r, n) => ~Running(q)
    <3>1. PICK q \in Pods : On(q, r, n) /\ (q \in queue \/ At("deleteLabel", q, n))
      BY <2>1 DEF RestInv, RemovalOwed
    <3> QED BY <3>1, <1>1, <1>3, <1>t DEF Steps
  <2>2. ASSUME NEW q \in Pods, On(q, r, n), Running(q)
        PROVE  \E k \in Pods : On(k, r, n)' /\ k \in queue'
    BY <2>2, <1>1, <1>2, <1>t
  <2> QED BY <2>1, <2>2
<1>7. ReadOrQueued'
  <2> SUFFICES ASSUME NEW q \in Pods, NEW n \in Nodes
               PROVE  /\ At("addLabel", q, n) => Running(q)' \/ q \in queue'
                      /\ At("deleteLabel", q, n) =>
                           \A k \in Pods : On(k, RoleOf[q], n)' /\ Running(k)' => k \in queue'
    BY <1>3 DEF ReadOrQueued, Steps
  <2>1. At("addLabel", q, n) => Running(q)' \/ q \in queue'
    BY <1>2 DEF RestInv, ReadOrQueued
  <2>2. ASSUME At("deleteLabel", q, n), NEW k \in Pods, On(k, RoleOf[q], n)', Running(k)',
               k \notin queue'
        PROVE  FALSE
    <3>1. Running(k) /\ k \notin queue
      BY <2>2, <1>2
    <3>2. pod[k].exists /\ pod[k].node \in Nodes
      BY <3>1 DEF RestInv, ReadyPlaced, Running
    <3>3. On(k, RoleOf[q], n)
      BY <2>2, <3>2 DEF On
    <3> QED BY <2>2, <3>1, <3>3 DEF RestInv, ReadOrQueued
  <2> QED BY <2>1, <2>2
<1>8. OtherCares'
  <2> SUFFICES ASSUME NEW q \in Pods, NEW n \in Nodes, At("deleteFinalizer", q, n),
                      RoleOf[q] \in label[n]
               PROVE  \E k \in Pods : k # q /\ On(k, RoleOf[q], n)' /\ (Running(k)' \/ k \in queue')
    BY <1>3 DEF OtherCares, Steps
  <2>1. PICK k \in Pods : k # q /\ On(k, RoleOf[q], n) /\ (Running(k) \/ k \in queue)
    BY DEF RestInv, OtherCares
  <2> QED BY <2>1, <1>1, <1>2, <1>t
<1> QED BY <1>4, <1>5, <1>6, <1>7, <1>8 DEF RestInv

(* The Pods the cluster creates, schedules, makes ready or unready and     *)
(* deletes: each of these but the scheduling queues the Pod.               *)
LEMMA ClusterRest ==
    ASSUME RestInv, IInv', Cluster
    PROVE  RestInv'
<1> USE PodNodeLabelsAssumption
<1>t. /\ pod \in [Pods -> PodObject] /\ nodes \subseteq Nodes /\ ReadyPlaced
  BY DEF RestInv, IInv, TypeOK
<1>1. ASSUME NEW p \in Pods, NEW new \in PodObject, UpdatePod(p, new), nodes' = nodes,
             pod[p].exists => new.exists,
             pod[p].exists /\ pod[p].node # None => new.node = pod[p].node,
             new.ready => new.exists /\ new.node \in Nodes,
             new.ready # pod[p].ready \/ new.deleting \/ ~pod[p].exists \/ ~new.ready
      PROVE  RestInv'
  <2>1. pod'[p] = new /\ \A q \in Pods : q # p => pod'[q] = pod[q]
    BY <1>1, <1>t DEF UpdatePod
  <2>2. queue \subseteq queue' /\ UNCHANGED <<label, task>>
    BY <1>1 DEF UpdatePod
  <2>3. p \in queue' \/ (~pod[p].ready /\ ~new.ready)
    BY <1>1, <1>t DEF UpdatePod, PodObject
  <2> QED BY <1>1, <2>1, <2>2, <2>3, PodChangeQueued
<1>2. ASSUME NEW p \in Pods, CreatePod(p) PROVE RestInv'
  <2>1. [NoPod EXCEPT !.exists = TRUE] \in PodObject
    BY DEF NoPod, PodObject
  <2> QED BY <1>1, <1>2, <2>1 DEF CreatePod, NoPod
<1>3. ASSUME NEW p \in Pods, NEW n \in Nodes, SchedulePod(p, n) PROVE RestInv'
  <2>1. [pod[p] EXCEPT !.node = n] \in PodObject /\ ~pod[p].ready
    BY <1>t, <1>3 DEF PodObject, ReadyPlaced, SchedulePod
  <2> DEFINE new == [pod[p] EXCEPT !.node = n]
  <2>2. new.exists = pod[p].exists /\ new.ready = pod[p].ready /\ new.node = n
    BY <1>t DEF PodObject
  <2>3. UpdatePod(p, new) /\ nodes' = nodes /\ pod[p].node = None
    BY <1>3 DEF SchedulePod
  <2> HIDE DEF new
  <2> QED BY <1>1, <2>1, <2>2, <2>3 DEF new
<1>4. ASSUME NEW p \in Pods, BecomeReady(p) PROVE RestInv'
  <2> DEFINE new == [pod[p] EXCEPT !.ready = TRUE]
  <2>1. new \in PodObject /\ new.exists = pod[p].exists /\ new.ready /\ new.node = pod[p].node
    BY <1>t DEF PodObject
  <2>2. UpdatePod(p, new) /\ nodes' = nodes /\ pod[p].exists /\ pod[p].node \in Nodes /\ ~pod[p].ready
    BY <1>4, <1>t DEF BecomeReady
  <2> HIDE DEF new
  <2> QED BY <1>1, <2>1, <2>2
<1>5. ASSUME NEW p \in Pods, BecomeUnready(p) PROVE RestInv'
  <2> DEFINE new == [pod[p] EXCEPT !.ready = FALSE]
  <2>1. new \in PodObject /\ new.exists = pod[p].exists /\ ~new.ready /\ new.node = pod[p].node
    BY <1>t DEF PodObject
  <2>2. UpdatePod(p, new) /\ nodes' = nodes
    BY <1>5 DEF BecomeUnready
  <2> HIDE DEF new
  <2> QED BY <1>1, <2>1, <2>2
<1>6. ASSUME NEW p \in Pods, DeletePod(p) PROVE RestInv'
  <2> DEFINE new == [pod[p] EXCEPT !.deleting = TRUE]
  <2>1. /\ new \in PodObject /\ new.exists = pod[p].exists /\ new.ready = pod[p].ready
        /\ new.deleting /\ new.node = pod[p].node
    BY <1>t DEF PodObject
  <2>2. UpdatePod(p, new) /\ nodes' = nodes
    BY <1>6 DEF DeletePod
  <2> HIDE DEF new
  <2> QED BY <1>1, <1>t, <2>1, <2>2 DEF ReadyPlaced
<1> QED BY <1>2, <1>3, <1>4, <1>5, <1>6 DEF Cluster

(* A Reconcile starts with what it reads.                                  *)
LEMMA StartRest ==
    ASSUME RestInv, IInv', NEW p \in Pods, StartReconcile(p)
    PROVE  RestInv'
<1> USE PodNodeLabelsAssumption
<1> DEFINE found == \E q \in Pods : /\ RoleOf[q] = RoleOf[p] /\ pod[q].node = pod[p].node
                                    /\ Running(q)
           To(step) == [step |-> step, pod |-> pod[p], name |-> {p}]
<1>t. /\ nodes \subseteq Nodes /\ \A q \in Pods : RoleOf[q] \in Roles
      /\ None \notin Nodes
  BY DEF RestInv, IInv, TypeOK
<1>1. /\ task.step = "idle" /\ queue' = queue \ {p}
      /\ pod' = pod /\ label' = label /\ nodes' = nodes
  BY DEF StartReconcile
<1>2. \A q \in Pods, n \in Nodes : /\ ~At("addLabel", q, n) /\ ~At("deleteLabel", q, n)
  BY <1>1 DEF At
<1>3. /\ ~pod[p].exists => task' = Idle
      /\ Running(p) => task' = To("addLabel")
      /\ pod[p].exists /\ ~Running(p) /\ pod[p].node # None /\ ~found => task' = To("deleteLabel")
      /\ pod[p].exists /\ ~Running(p) /\ (pod[p].node = None \/ found)
           => task' = To("deleteFinalizer") \/ task' = Idle
  BY DEF StartReconcile, Running
<1>4. \A q \in Pods, n \in Nodes, r \in Roles :
          (On(q, r, n)' <=> On(q, r, n)) /\ (Running(q)' <=> Running(q))
  BY <1>1 DEF On, Running
<1>5. ReadyPlaced'
  BY <1>1 DEF RestInv, ReadyPlaced
<1>6. LabelOwed'
  <2> SUFFICES ASSUME NEW q \in Pods, NEW n \in nodes, Running(q), pod[q].node = n,
                      RoleOf[q] \notin label[n], q \notin queue'
               PROVE  At("addLabel", q, n)'
    BY <1>1, <1>4, <1>t DEF LabelOwed
  <2>1. q \in queue
    BY <1>2, <1>t DEF RestInv, LabelOwed
  <2>2. q = p /\ task' = To("addLabel")
    BY <2>1, <1>1, <1>3
  <2> QED BY <2>2 DEF At
<1>7. RemovalOwed'
  <2> SUFFICES ASSUME NEW n \in nodes, NEW r \in Roles, r \in label[n],
                      \A q \in Pods : On(q, r, n) => ~Running(q)
               PROVE  \E q \in Pods : On(q, r, n) /\ (q \in queue' \/ At("deleteLabel", q, n)')
    BY <1>1, <1>4, <1>t DEF RemovalOwed
  <2>1. PICK q \in Pods : On(q, r, n) /\ q \in queue
    BY <1>2, <1>t DEF RestInv, RemovalOwed
  <2>2. CASE q # p
    BY <2>1, <2>2, <1>1
  <2>3. CASE q = p
    <3>1. ~found
      BY <2>1, <2>3 DEF On, Running
    <3>2. task' = To("deleteLabel")
      BY <2>1, <2>3, <3>1, <1>3, <1>t DEF On
    <3> QED BY <2>1, <2>3, <3>2 DEF At, On
  <2> QED BY <2>2, <2>3
<1>8. CASE task' = Idle
  <2>1. \A q \in Pods, n \in Nodes, step \in Steps \ {"idle"} : ~At(step, q, n)'
    BY <1>8 DEF At, Idle
  <2>2. ReadOrQueued' /\ OtherCares'
    BY <2>1 DEF ReadOrQueued, OtherCares, Steps
  <2> QED BY <1>5, <1>6, <1>7, <2>2 DEF RestInv
<1>9. CASE pod[p].exists /\ Running(p)
  <2>1. task' = To("addLabel")
    BY <1>3, <1>9
  <2>2. ReadOrQueued' /\ OtherCares'
    BY <2>1, <1>9, <1>4, <1>t DEF ReadOrQueued, OtherCares, At
  <2> QED BY <1>5, <1>6, <1>7, <2>2 DEF RestInv
<1>10. CASE pod[p].exists /\ ~Running(p) /\ pod[p].node # None /\ ~found
  <2>1. task' = To("deleteLabel")
    BY <1>3, <1>10
  <2>2. ReadOrQueued'
    BY <2>1, <1>10, <1>4, <1>t DEF ReadOrQueued, At, On
  <2>3. OtherCares'
    BY <2>1 DEF OtherCares, At
  <2> QED BY <1>5, <1>6, <1>7, <2>2, <2>3 DEF RestInv
<1>11. CASE /\ pod[p].exists /\ ~Running(p) /\ (pod[p].node = None \/ found)
            /\ task' = To("deleteFinalizer")
  <2>1. ReadOrQueued'
    BY <1>11 DEF ReadOrQueued, At
  <2>2. OtherCares'
    <3> SUFFICES ASSUME NEW n \in Nodes, pod[p].node = n
                 PROVE  \E q \in Pods : q # p /\ On(q, RoleOf[p], n)' /\ Running(q)'
      BY <1>11 DEF OtherCares, At
    <3>1. PICK q \in Pods : RoleOf[q] = RoleOf[p] /\ pod[q].node = pod[p].node /\ Running(q)
      BY <1>11, <1>t
    <3>2. On(q, RoleOf[p], n) /\ q # p
      BY <3>1, <1>11 DEF On, Running
    <3> QED BY <3>1, <3>2, <1>4, <1>t
  <2> QED BY <1>5, <1>6, <1>7, <2>1, <2>2 DEF RestInv
<1> QED BY <1>3, <1>8, <1>9, <1>10, <1>11

(* When a Reconcile ends nothing it read matters any more.                 *)
LEMMA EndRest ==
    ASSUME IInv', ReadyPlaced', LabelOwed', RemovalOwed', task' = Idle
    PROVE  RestInv'
<1>1. \A q \in Pods, n \in Nodes, step \in Steps \ {"idle"} : ~At(step, q, n)'
  BY DEF At, Idle
<1>2. ReadOrQueued' /\ OtherCares'
  BY <1>1 DEF ReadOrQueued, OtherCares, Steps
<1> QED BY <1>2 DEF RestInv

(* The label that is added is owed, or the Pod is queued again.            *)
LEMMA AddRest ==
    ASSUME RestInv, IInv', NEW p \in Pods, addLabel(p)
    PROVE  RestInv'
<1> USE PodNodeLabelsAssumption
<1> DEFINE m == task.pod.node
<1>t. /\ nodes \subseteq Nodes /\ \A q \in Pods : RoleOf[q] \in Roles
      /\ label \in [Nodes -> SUBSET Roles]
  BY DEF RestInv, IInv, TypeOK
<1>1. /\ task.step = "addLabel" /\ task.name = {p} /\ task' = Idle
      /\ pod' = pod /\ nodes' = nodes
      /\ queue' = IF m \notin nodes THEN queue \cup {p} ELSE queue
      /\ label' = IF m \in nodes THEN [label EXCEPT ![m] = @ \cup {RoleOf[p]}] ELSE label
  BY DEF addLabel, End
<1>2. \A q \in Pods, n \in Nodes, r \in Roles :
          (On(q, r, n)' <=> On(q, r, n)) /\ (Running(q)' <=> Running(q))
  BY <1>1 DEF On, Running
<1>3. \A n \in Nodes : /\ label[n] \subseteq label'[n]
                       /\ n \in nodes /\ n = m => RoleOf[p] \in label'[n]
                       /\ \A r \in label'[n] : r \in label[n] \/ (n = m /\ r = RoleOf[p])
  BY <1>1, <1>t
<1>4. ReadyPlaced'
  BY <1>1 DEF RestInv, ReadyPlaced
<1>5. LabelOwed'
  <2> SUFFICES ASSUME NEW q \in Pods, NEW n \in nodes, Running(q), pod[q].node = n,
                      RoleOf[q] \notin label'[n]
               PROVE  q \in queue'
    BY <1>1, <1>2, <1>t DEF LabelOwed
  <2>1. q \in queue \/ At("addLabel", q, n)
    BY <1>3, <1>t DEF RestInv, LabelOwed
  <2>2. ~At("addLabel", q, n)
    BY <1>1, <1>3, <1>t DEF At
  <2> QED BY <2>1, <2>2, <1>1
<1>6. RemovalOwed'
  <2> SUFFICES ASSUME NEW n \in nodes, NEW r \in Roles, r \in label'[n],
                      \A q \in Pods : On(q, r, n) => ~Running(q)
               PROVE  \E q \in Pods : On(q, r, n) /\ q \in queue'
    BY <1>1, <1>2, <1>t DEF RemovalOwed
  <2>1. CASE r \in label[n]
    BY <2>1, <1>1 DEF RestInv, RemovalOwed, At
  <2>2. CASE n = m /\ r = RoleOf[p]
    <3>1. On(p, r, n)
      BY <2>2, <1>1, <1>t DEF On, RestInv, IInv, TaskPodThere
    <3>2. p \in queue
      BY <3>1, <2>2, <1>1, <1>t DEF RestInv, ReadOrQueued, At
    <3> QED BY <3>1, <3>2, <1>1
  <2> QED BY <2>1, <2>2, <1>3, <1>t
<1> QED BY <1>1, <1>4, <1>5, <1>6, EndRest

(* A label is taken away only from Pods that are queued.                   *)
LEMMA DeleteLabelRest ==
    ASSUME RestInv, IInv', NEW p \in Pods, deleteLabel(p)
    PROVE  RestInv'
<1> USE PodNodeLabelsAssumption
<1> DEFINE m == task.pod.node
<1>t. /\ nodes \subseteq Nodes /\ \A q \in Pods : RoleOf[q] \in Roles
      /\ label \in [Nodes -> SUBSET Roles]
      /\ task \in [step: Steps, pod: PodObject, name: SUBSET Pods]
      /\ GoneUnlabelled
  BY DEF RestInv, IInv, TypeOK
<1>1. /\ task.step = "deleteLabel" /\ task.name = {p}
      /\ pod' = pod /\ nodes' = nodes /\ queue' = queue
      /\ label' = IF m \in nodes THEN [label EXCEPT ![m] = @ \ {RoleOf[p]}] ELSE label
      /\ task' = Idle \/ task' = [task EXCEPT !.step = "deleteFinalizer"]
  BY DEF deleteLabel
<1>2. \A q \in Pods, n \in Nodes, r \in Roles :
          (On(q, r, n)' <=> On(q, r, n)) /\ (Running(q)' <=> Running(q))
  BY <1>1 DEF On, Running
<1>3. \A n \in Nodes : /\ label'[n] \subseteq label[n]
                       /\ n = m => RoleOf[p] \notin label'[n]
                       /\ \A r \in label[n] : r \in label'[n] \/ (n = m /\ r = RoleOf[p])
  BY <1>1, <1>t DEF GoneUnlabelled
<1>4. ReadyPlaced'
  BY <1>1 DEF RestInv, ReadyPlaced
<1>5. LabelOwed'
  <2> SUFFICES ASSUME NEW q \in Pods, NEW n \in nodes, Running(q), pod[q].node = n,
                      RoleOf[q] \notin label'[n]
               PROVE  q \in queue
    BY <1>1, <1>2, <1>t DEF LabelOwed
  <2>1. CASE RoleOf[q] \notin label[n]
    BY <2>1, <1>1 DEF RestInv, LabelOwed, At
  <2>2. CASE n = m /\ RoleOf[q] = RoleOf[p]
    BY <2>2, <1>1, <1>t DEF RestInv, ReadOrQueued, At, On, Running
  <2> QED BY <2>1, <2>2, <1>3, <1>t
<1>6. RemovalOwed'
  <2> SUFFICES ASSUME NEW n \in nodes, NEW r \in Roles, r \in label'[n],
                      \A q \in Pods : On(q, r, n) => ~Running(q)
               PROVE  \E q \in Pods : On(q, r, n) /\ q \in queue
    BY <1>1, <1>2, <1>t DEF RemovalOwed
  <2>1. PICK q \in Pods : On(q, r, n) /\ (q \in queue \/ At("deleteLabel", q, n))
    BY <1>3, <1>t DEF RestInv, RemovalOwed
  <2>2. ~At("deleteLabel", q, n)
    BY <2>1, <1>1, <1>3, <1>t DEF At, On
  <2> QED BY <2>1, <2>2
<1>7. CASE task' = Idle
  BY <1>4, <1>5, <1>6, <1>7, EndRest
<1>8. CASE task' = [task EXCEPT !.step = "deleteFinalizer"]
  <2>1. task'.step = "deleteFinalizer" /\ task'.name = {p} /\ task'.pod = task.pod
    BY <1>8, <1>1, <1>t
  <2>2. ReadOrQueued'
    BY <2>1 DEF ReadOrQueued, At
  <2>3. OtherCares'
    BY <2>1, <1>3 DEF OtherCares, At
  <2> QED BY <1>4, <1>5, <1>6, <2>2, <2>3 DEF RestInv
<1> QED BY <1>1, <1>7, <1>8

(* A Pod that goes leaves a label only to a Pod that cares for it.         *)
LEMMA DeleteFinalizerRest ==
    ASSUME RestInv, IInv', NEW p \in Pods, deleteFinalizer(p)
    PROVE  RestInv'
<1> USE PodNodeLabelsAssumption
<1>t. /\ nodes \subseteq Nodes /\ \A q \in Pods : RoleOf[q] \in Roles
      /\ pod \in [Pods -> PodObject]
  BY DEF RestInv, IInv, TypeOK
<1>1. /\ task.step = "deleteFinalizer" /\ task.name = {p} /\ task' = Idle
      /\ nodes' = nodes /\ label' = label /\ queue \subseteq queue'
      /\ \/ pod' = pod
         \/ pod' = [pod EXCEPT ![p] = NoPod] /\ (pod[p].exists => pod[p] = task.pod)
  BY DEF deleteFinalizer, End
<1>2. \A q \in Pods, n \in Nodes, step \in {"addLabel", "deleteLabel"} : ~At(step, q, n)
  BY <1>1 DEF At
<1>3. /\ \A q \in Pods : q # p => pod'[q] = pod[q]
      /\ pod' = pod \/ pod'[p] = NoPod
  BY <1>1, <1>t
<1>4. ReadyPlaced'
  BY <1>3 DEF RestInv, ReadyPlaced, NoPod
<1>5. LabelOwed'
  <2> SUFFICES ASSUME NEW q \in Pods, NEW n \in nodes, Running(q)', pod'[q].node = n,
                      RoleOf[q] \notin label[n]
               PROVE  q \in queue'
    BY <1>1 DEF LabelOwed
  <2>1. pod'[q] = pod[q]
    BY <1>3 DEF Running, NoPod
  <2> QED BY <2>1, <1>1, <1>2, <1>t DEF RestInv, LabelOwed, Running
<1>6. RemovalOwed'
  <2> SUFFICES ASSUME NEW n \in nodes, NEW r \in Roles, r \in label[n],
                      \A q \in Pods : On(q, r, n)' => ~Running(q)'
               PROVE  \E q \in Pods : On(q, r, n)' /\ q \in queue'
    BY <1>1 DEF RemovalOwed
  <2>1. CASE pod' = pod
    <3>1. \A q \in Pods : On(q, r, n) => ~Running(q)
      BY <2>1 DEF On, Running
    <3>2. PICK q \in Pods : On(q, r, n) /\ q \in queue
      BY <3>1, <1>2, <1>t DEF RestInv, RemovalOwed
    <3> QED BY <3>2, <2>1, <1>1 DEF On
  <2>2. CASE pod'[p] = NoPod /\ ~On(p, r, n)
    <3>1. \A q \in Pods : On(q, r, n) => ~Running(q)
      BY <2>2, <1>3 DEF On, Running
    <3>2. PICK q \in Pods : On(q, r, n) /\ q \in queue
      BY <3>1, <1>2, <1>t DEF RestInv, RemovalOwed
    <3>3. q # p
      BY <3>2, <2>2
    <3> QED BY <3>2, <3>3, <1>3, <1>1 DEF On
  <2>3. CASE pod'[p] = NoPod /\ On(p, r, n) /\ pod' # pod
    <3>1. At("deleteFinalizer", p, n) /\ r = RoleOf[p]
      BY <2>3, <1>1 DEF At, On
    <3>2. PICK q \in Pods : q # p /\ On(q, r, n) /\ (Running(q) \/ q \in queue)
      BY <3>1, <1>t DEF RestInv, OtherCares
    <3>3. On(q, r, n)' /\ (Running(q)' <=> Running(q))
      BY <3>2, <1>3 DEF On, Running
    <3> QED BY <3>2, <3>3, <1>1
  <2> QED BY <2>1, <2>2, <2>3, <1>3
<1> QED BY <1>1, <1>4, <1>5, <1>6, EndRest

(* A Reconcile that fails is done again.                                   *)
LEMMA FailsRest ==
    ASSUME RestInv, IInv', NEW p \in Pods, CallFails(p)
    PROVE  RestInv'
<1> USE PodNodeLabelsAssumption
<1>1. /\ task' = Idle /\ queue' = queue \cup {p} /\ task.name = {p}
      /\ pod' = pod /\ nodes' = nodes /\ label' = label
  BY DEF CallFails, End
<1>2. ReadyPlaced'
  BY <1>1 DEF RestInv, ReadyPlaced
<1>3. LabelOwed'
  BY <1>1 DEF RestInv, LabelOwed, At, Running
<1>4. RemovalOwed'
  <2> SUFFICES ASSUME NEW n \in nodes, NEW r \in Roles, r \in label[n],
                      \A q \in Pods : On(q, r, n) => ~Running(q)
               PROVE  \E q \in Pods : On(q, r, n) /\ q \in queue'
    BY <1>1 DEF RemovalOwed, On, Running
  <2>1. PICK q \in Pods : On(q, r, n) /\ (q \in queue \/ At("deleteLabel", q, n))
    BY DEF RestInv, RemovalOwed
  <2> QED BY <2>1, <1>1 DEF At
<1> QED BY <1>1, <1>2, <1>3, <1>4, EndRest

(* A Node that is removed owes nothing.                                    *)
LEMMA RemoveNodeRest ==
    ASSUME RestInv, IInv', NEW m \in Nodes, RemoveNode(m)
    PROVE  RestInv'
<1> USE PodNodeLabelsAssumption
<1>1. /\ nodes' = nodes \ {m} /\ UNCHANGED <<pod, queue, task>>
      /\ \A n \in Nodes : n # m => label'[n] = label[n]
      /\ \A n \in Nodes : label'[n] \subseteq label[n]
      /\ nodes \subseteq Nodes
  BY DEF RemoveNode, RestInv, IInv, TypeOK
<1>2. ReadyPlaced'
  BY <1>1 DEF RestInv, ReadyPlaced
<1>3. LabelOwed'
  BY <1>1 DEF RestInv, LabelOwed, At, Running
<1>4. RemovalOwed'
  BY <1>1 DEF RestInv, RemovalOwed, At, On, Running
<1>5. ReadOrQueued'
  BY <1>1 DEF RestInv, ReadOrQueued, At, On, Running
<1>6. OtherCares'
  BY <1>1 DEF RestInv, OtherCares, At, On, Running
<1> QED BY <1>2, <1>3, <1>4, <1>5, <1>6 DEF RestInv

(* Every step of the controller, the Pods and the Nodes keeps RestInv.     *)
LEMMA RestStep == RestInv /\ [Next]_vars => RestInv'
<1> SUFFICES ASSUME RestInv, [Next]_vars PROVE RestInv'
  OBVIOUS
<1>0. IInv'
  BY IInvStep DEF RestInv
<1>1. CASE UNCHANGED vars
  BY <1>0, <1>1 DEF vars, RestInv, ReadyPlaced, LabelOwed, RemovalOwed, ReadOrQueued,
                    OtherCares, At, On, Running
<1>2. CASE Controller
  BY <1>0, <1>2, StartRest, AddRest, DeleteLabelRest, DeleteFinalizerRest DEF Controller
<1>3. CASE Cluster
  BY <1>0, <1>3, ClusterRest
<1>4. CASE \E p \in Pods : CallFails(p)
  BY <1>0, <1>4, FailsRest
<1>5. CASE \E n \in Nodes : RemoveNode(n)
  BY <1>0, <1>5, RemoveNodeRest
<1> QED BY <1>1, <1>2, <1>3, <1>4, <1>5 DEF Next

(* When the controller has nothing left to do, the labels of every node    *)
(* tell exactly which roles have a ready Pod there, for any number of      *)
(* Pods, versions and nodes: a Reconcile that acts on a list that is out   *)
(* of date leaves the Pod that changed queued.                             *)
THEOREM LabelsRightAtRest == Spec => []LabelsRestRight
<1>1. Init => RestInv
  <2>1. Init => IInv
    BY TypeInit DEF Init, IInv, LabelHasPod, TaskPodThere, FinalizerLast, GoneUnlabelled, Idle
  <2> QED BY <2>1, PodNodeLabelsAssumption
     DEF Init, RestInv, ReadyPlaced, LabelOwed, RemovalOwed, ReadOrQueued, OtherCares,
         At, Running, NoPod, Idle
<1>2. RestInv /\ [Next]_vars => RestInv'
  BY RestStep
<1>3. RestInv => LabelsRestRight
  <2> SUFFICES ASSUME RestInv, queue = {}, task.step = "idle", NEW n \in nodes
               PROVE  label[n] = {RoleOf[p] : p \in {q \in Pods : Running(q) /\ pod[q].node = n}}
    BY DEF LabelsRestRight
  <2>t. label[n] \subseteq Roles /\ n \in Nodes
    BY DEF RestInv, IInv, TypeOK
  <2>1. ASSUME NEW p \in Pods, Running(p), pod[p].node = n PROVE RoleOf[p] \in label[n]
    BY <2>1 DEF RestInv, LabelOwed, At
  <2>2. ASSUME NEW r \in label[n]
        PROVE  \E p \in Pods : Running(p) /\ pod[p].node = n /\ RoleOf[p] = r
    BY <2>2, <2>t DEF RestInv, RemovalOwed, At, On
  <2> QED BY <2>1, <2>2
<1> QED BY <1>1, <1>2, <1>3, PTL DEF Spec

=============================================================================
