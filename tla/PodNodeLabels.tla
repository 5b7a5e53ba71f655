---------------------------- MODULE PodNodeLabels ----------------------------
(***************************************************************************)
(* The Pod node label controller                                           *)
(* (internal/controllers/pod_node_label_reconciler.go): a label per role   *)
(* tells on the node that a device plugin or DRA Pod of a Module is ready  *)
(* there.  The Pods belong to DaemonSets of one Module, possibly of two    *)
(* versions, so two of one role can be on one node.  Each Pod carries the  *)
(* controller's finalizer.                                                 *)
(***************************************************************************)
EXTENDS Naturals, FiniteSets

CONSTANTS
    Nodes,          \* the nodes of the cluster
    Pods,           \* the Pods; one that is gone may be created anew
    Roles,          \* device plugin, DRA
    RoleOf,         \* the role of each Pod
    MaxFlaps,       \* bound: Pods that stop being ready, Nodes removed
    MaxFailures,    \* bound: API calls that fail
    None            \* no node

ASSUME PodNodeLabelsAssumption ==
    /\ RoleOf \in [Pods -> Roles]
    /\ None \notin Nodes
    /\ MaxFlaps \in Nat /\ MaxFailures \in Nat

VARIABLES
    pod,        \* the Pod objects
    nodes,      \* the Node objects that exist
    label,      \* per node: the roles it is labelled with
    queue,      \* Pods queued
    task,       \* the Reconcile in progress
    flaps,      \* how much of MaxFlaps is used
    failures    \* how much of MaxFailures is used

vars == <<pod, nodes, label, queue, task, flaps, failures>>

-----------------------------------------------------------------------------
(* Objects                                                                 *)

(* A Pod being deleted may still be ready.                                 *)
PodObject == [exists: BOOLEAN, node: Nodes \cup {None}, ready: BOOLEAN, deleting: BOOLEAN]

NoPod == [exists |-> FALSE, node |-> None, ready |-> FALSE, deleting |-> FALSE]

Steps == {"idle", "addLabel", "deleteLabel", "deleteFinalizer"}

Idle == [step |-> "idle", pod |-> NoPod, name |-> {}]

TypeOK ==
    /\ pod \in [Pods -> PodObject]
    /\ nodes \subseteq Nodes
    /\ label \in [Nodes -> SUBSET Roles]
    /\ queue \subseteq Pods
    /\ task \in [step: Steps, pod: PodObject, name: SUBSET Pods]
    /\ flaps \in 0..MaxFlaps /\ failures \in 0..MaxFailures

Init ==
    /\ pod = [p \in Pods |-> NoPod]
    /\ nodes = Nodes
    /\ label = [n \in Nodes |-> {}]
    /\ queue = {} /\ task = Idle
    /\ flaps = 0 /\ failures = 0

Running(p) == pod[p].exists /\ pod[p].ready /\ ~pod[p].deleting

-----------------------------------------------------------------------------
(* Reconcile                                                               *)

(* Mutant: other Pods of the role are not looked for. *)
StartReconcileAlone(p) ==
    /\ task.step = "idle"
    /\ p \in queue
    /\ queue' = queue \ {p}
    /\ LET listed == {q \in Pods : RoleOf[q] = RoleOf[p] /\ pod[q].node = pod[p].node}
           foundRunningPod == FALSE
           To(step) == [step |-> step, pod |-> pod[p], name |-> {p}]
       IN task' =
            CASE ~pod[p].exists -> Idle
              [] Running(p) -> To("addLabel")
              [] pod[p].exists /\ ~Running(p) /\ pod[p].node # None /\ ~foundRunningPod -> To("deleteLabel")
              [] pod[p].exists /\ ~Running(p) /\ (pod[p].node = None \/ foundRunningPod) ->
                    IF pod[p].deleting THEN To("deleteFinalizer") ELSE Idle
    /\ UNCHANGED <<pod, nodes, label, flaps, failures>>

(* Mutant: a Pod that is still ready is not unlabelled when it is deleted. *)
StartReconcileDeleting(p) ==
    /\ task.step = "idle"
    /\ p \in queue
    /\ queue' = queue \ {p}
    /\ LET listed == {q \in Pods : RoleOf[q] = RoleOf[p] /\ pod[q].node = pod[p].node}
           foundRunningPod == \E q \in listed : Running(q)
           To(step) == [step |-> step, pod |-> pod[p], name |-> {p}]
       IN task' =
            CASE ~pod[p].exists -> Idle
              [] Running(p) -> To("addLabel")
              [] pod[p].exists /\ ~Running(p) /\ pod[p].node # None /\ ~foundRunningPod /\ ~pod[p].ready -> To("deleteLabel")
              [] pod[p].exists /\ ~Running(p) /\ (pod[p].node = None \/ foundRunningPod \/ pod[p].ready) ->
                    IF pod[p].deleting THEN To("deleteFinalizer") ELSE Idle
    /\ UNCHANGED <<pod, nodes, label, flaps, failures>>

(* The Pods of the role on the node are listed before anything is patched. *)
(* A Pod that never got a node has nothing to unlabel.                     *)
StartReconcile(p) ==
    /\ task.step = "idle"
    /\ p \in queue
    /\ queue' = queue \ {p}
    /\ LET listed == {q \in Pods : RoleOf[q] = RoleOf[p] /\ pod[q].node = pod[p].node}
           foundRunningPod == \E q \in listed : Running(q)
           To(step) == [step |-> step, pod |-> pod[p], name |-> {p}]
       IN task' =
            CASE ~pod[p].exists -> Idle
              [] Running(p) -> To("addLabel")
              [] pod[p].exists /\ ~Running(p) /\ pod[p].node # None /\ ~foundRunningPod -> To("deleteLabel")
              [] pod[p].exists /\ ~Running(p) /\ (pod[p].node = None \/ foundRunningPod) ->
                    IF pod[p].deleting THEN To("deleteFinalizer") ELSE Idle
    /\ UNCHANGED <<pod, nodes, label, flaps, failures>>

(* The end of Reconcile; an error queues the Pod again.                    *)
End(p, failed) ==
    /\ task' = Idle
    /\ queue' = IF failed THEN queue \cup {p} ELSE queue

(* Mutant: the label is named after the Pod. *)
addLabelNamed(p) ==
    /\ task.step = "addLabel" /\ task.name = {p}
    /\ LET n == task.pod.node
       IN /\ label' = IF n \in nodes THEN [label EXCEPT ![n] = @ \cup {p}] ELSE label
          /\ End(p, n \notin nodes)
    /\ UNCHANGED <<pod, nodes, flaps, failures>>

addLabel(p) ==
    /\ task.step = "addLabel" /\ task.name = {p}
    /\ LET n == task.pod.node
       IN /\ label' = IF n \in nodes THEN [label EXCEPT ![n] = @ \cup {RoleOf[p]}] ELSE label
          /\ End(p, n \notin nodes)
    /\ UNCHANGED <<pod, nodes, flaps, failures>>

(* Mutant: a node that is gone is an error. *)
deleteLabelNodeGone(p) ==
    /\ task.step = "deleteLabel" /\ task.name = {p}
    /\ LET n == task.pod.node
       IN label' = IF n \in nodes THEN [label EXCEPT ![n] = @ \ {RoleOf[p]}] ELSE label
    /\ IF task.pod.node \in nodes /\ task.pod.deleting
       THEN task' = [task EXCEPT !.step = "deleteFinalizer"] /\ UNCHANGED queue
       ELSE End(p, task.pod.node \notin nodes)
    /\ UNCHANGED <<pod, nodes, flaps, failures>>

(* A node that is gone is no error.                                        *)
deleteLabel(p) ==
    /\ task.step = "deleteLabel" /\ task.name = {p}
    /\ LET n == task.pod.node
       IN label' = IF n \in nodes THEN [label EXCEPT ![n] = @ \ {RoleOf[p]}] ELSE label
    /\ task' = IF task.pod.deleting THEN [task EXCEPT !.step = "deleteFinalizer"] ELSE Idle
    /\ UNCHANGED <<pod, nodes, queue, flaps, failures>>

(* With the resource version of the Pod that was read; without the         *)
(* finalizer the Pod goes.  A Pod that is not found any more is no error.  *)
deleteFinalizer(p) ==
    /\ task.step = "deleteFinalizer" /\ task.name = {p}
    /\ LET conflict == pod[p].exists /\ pod[p] # task.pod
       IN /\ pod' = IF conflict THEN pod ELSE [pod EXCEPT ![p] = NoPod]
          /\ End(p, conflict)
    /\ UNCHANGED <<nodes, label, flaps, failures>>

CallFails(p) ==
    /\ task.step # "idle" /\ task.name = {p}
    /\ failures < MaxFailures /\ failures' = failures + 1
    /\ End(p, TRUE)
    /\ UNCHANGED <<pod, nodes, label, flaps>>

Controller ==
    \E p \in Pods : StartReconcile(p) \/ addLabel(p) \/ deleteLabel(p) \/ deleteFinalizer(p)

-----------------------------------------------------------------------------
(* The cluster.  PodReadinessChangedPredicate and DeletingPredicate let    *)
(* through updates of readiness, and everything about a Pod on its way     *)
(* out.  The first event of a Pod is not filtered.                         *)

UpdatePod(p, new) ==
    /\ pod' = [pod EXCEPT ![p] = new]
    /\ queue' = IF new.ready # pod[p].ready \/ new.deleting \/ ~pod[p].exists
                THEN queue \cup {p} ELSE queue
    /\ UNCHANGED <<label, task, failures>>

Flap == flaps < MaxFlaps /\ flaps' = flaps + 1

CreatePod(p) ==
    /\ ~pod[p].exists /\ Flap
    /\ UpdatePod(p, [NoPod EXCEPT !.exists = TRUE])
    /\ UNCHANGED nodes

SchedulePod(p, n) ==
    /\ pod[p].exists /\ pod[p].node = None /\ ~pod[p].deleting /\ n \in nodes
    /\ UpdatePod(p, [pod[p] EXCEPT !.node = n])
    /\ UNCHANGED <<nodes, flaps>>

(* A Pod may become ready while it is being deleted, never after.          *)
BecomeReady(p) ==
    /\ pod[p].exists /\ pod[p].node \in nodes /\ ~pod[p].ready
    /\ UpdatePod(p, [pod[p] EXCEPT !.ready = TRUE])
    /\ UNCHANGED <<nodes, flaps>>

BecomeUnready(p) ==
    /\ pod[p].ready /\ Flap
    /\ UpdatePod(p, [pod[p] EXCEPT !.ready = FALSE])
    /\ UNCHANGED nodes

DeletePod(p) ==
    /\ pod[p].exists /\ ~pod[p].deleting
    /\ UpdatePod(p, [pod[p] EXCEPT !.deleting = TRUE])
    /\ UNCHANGED <<nodes, flaps>>

(* The Pods of a removed Node are deleted by the Pod garbage collector.    *)
RemoveNode(n) ==
    /\ n \in nodes /\ Flap
    /\ nodes' = nodes \ {n}
    /\ label' = [label EXCEPT ![n] = {}]
    /\ UNCHANGED <<pod, queue, task, failures>>

CollectPod(p) ==
    /\ pod[p].node \in Nodes \ nodes
    /\ DeletePod(p)

Cluster ==
    \E p \in Pods : \/ CreatePod(p) \/ BecomeReady(p) \/ BecomeUnready(p) \/ DeletePod(p)
                    \/ \E n \in Nodes : SchedulePod(p, n)

Next == Controller \/ Cluster \/ (\E p \in Pods : CallFails(p)) \/ (\E n \in Nodes : RemoveNode(n))

(* One worker, each of whose steps is retried until it succeeds, and the   *)
(* Pod garbage collector.                                                  *)
Fairness == WF_vars(Controller) /\ \A p \in Pods : WF_vars(CollectPod(p))

Spec == Init /\ [][Next]_vars /\ Fairness

-----------------------------------------------------------------------------
(* Properties                                                              *)

(* A node is labelled only while a Pod of the role that is still there     *)
(* will take the label away: the finalizer goes after the label, also when *)
(* the Pod list was read before another Pod changed.                       *)
LabelHasPod ==
    \A n \in Nodes : \A r \in label[n] :
        \E p \in Pods : pod[p].exists /\ pod[p].node = n /\ RoleOf[p] = r

(* When nothing is left to reconcile, the labels tell exactly which nodes  *)
(* have a ready Pod of the role, whatever order the Pods of two versions   *)
(* came and went in.                                                       *)
LabelsRestRight ==
    (queue = {} /\ task.step = "idle") =>
        \A n \in nodes : label[n] = {RoleOf[p] : p \in {q \in Pods : Running(q) /\ pod[q].node = n}}

(* A deleted Pod goes, though its node may go first: the finalizer is      *)
(* never what keeps it.                                                    *)
FinalizerReleased == \A p \in Pods : pod[p].deleting ~> ~pod[p].exists

=============================================================================
