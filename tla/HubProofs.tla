------------------------------ MODULE HubProofs ------------------------------
(***************************************************************************)
(* Proofs about Hub for any clusters, kernels and ManagedClusterModules:   *)
(* no ManifestWork is ahead of its images unless the cache was behind, and *)
(* ManifestWorks and status are right whenever the controller rests.       *)
(***************************************************************************)
EXTENDS Hub, TLAPS

Steps == {"idle", "clusters", "ready", "work", "updateStatus"}

Phases == {"none", "live", "deleting"}

(* The fields of the objects; what specs, claims and mappings are made of  *)
(* does not matter here.                                                   *)
TaskShape ==
    task \in [step: Steps, uid: Nat, spec: {task.spec}, trigger: {task.trigger}, claims: {task.claims},
              todo: SUBSET Clusters, current: Clusters \cup {None}, hasty: BOOLEAN]

MCMShape ==
    mcm \in [exists: BOOLEAN, uid: Nat, everything: {mcm.everything}, spec: {mcm.spec},
             trigger: Nat, status: {mcm.status}]

IsMIC(m) ==
    m \in [exists: BOOLEAN, owner: Nat, images: {m.images}, trigger: {m.trigger}, states: {m.states},
           applied: {m.applied}]

MICs(ms) == ms = [c \in Clusters |-> ms[c]] /\ \A c \in Clusters : IsMIC(ms[c])

MICShape == MICs(mic) /\ MICs(cachedMIC) /\ reported = [c \in Clusters |-> reported[c]]

WorkShape ==
    /\ mw = [c \in Clusters |-> mw[c]]
    /\ \A c \in Clusters :
          mw[c] \in [phase: Phases, owner: Nat, mappings: {mw[c].mappings},
                     conditions: {mw[c].conditions}]

(* A Reconcile that is at a cluster has it in its list.                    *)
AtCluster == task.step \in {"ready", "work"} => task.current \in task.todo

Shape == /\ TaskShape /\ MCMShape /\ MICShape /\ WorkShape /\ AtCluster /\ queue \in BOOLEAN

(* What stays of the Reconcile when it goes on to the next cluster.        *)
SameTask == task'.uid = task.uid /\ task'.claims = task.claims

(* The images the Reconcile wants and ships for a cluster.                 *)
Wanted(c) == ImagesOf(task.spec, KernelVersions(task.claims[c]))

LEMMA NextEffect ==
  ASSUME TaskShape, NEW c \in Clusters, NEW spec, NEW hasty \in BOOLEAN,
         task' = [task EXCEPT !.step = "clusters", !.todo = @ \ {c}, !.current = None, !.hasty = hasty,
                              !.spec = spec]
  PROVE  /\ TaskShape' /\ SameTask
         /\ task'.step = "clusters" /\ task'.todo = task.todo \ {c} /\ task'.spec = spec
  BY DEF TaskShape, SameTask, Steps

(* The steps of the Reconcile, seen from outside.                          *)
LEMMA MicEffect ==
  ASSUME Shape, NEW c \in Clusters, setMicAsDesired(c)
  PROVE  /\ TaskShape' /\ SameTask /\ task'.spec = task.spec
         /\ task.step = "clusters" /\ c \in task.todo
         /\ UNCHANGED <<spoke, cluster, mcm, cachedMIC, reported, mw, queue, early>>
         /\ \/ /\ UNCHANGED mic
               /\ task'.step = "clusters" /\ task'.todo = task.todo \ {c}
               /\ \/ task.claims[c] = None /\ lost' = lost \ {c}
                  \/ lost' = lost \cup {c}
            \/ /\ cachedMIC[c].exists = mic[c].exists
               /\ mic' = [mic EXCEPT ![c] = Patched(c, Wanted(c))]
               /\ task'.step = "ready" /\ task'.current = c /\ task'.todo = task.todo
               /\ UNCHANGED lost
  <1> DEFINE error == \/ \E k \in KernelVersions(task.claims[c]) : task.spec[k] = Failed
                      \/ cachedMIC[c].exists # mic[c].exists
             skip == task.claims[c] = None \/ error
  <1>1. /\ task.step = "clusters" /\ c \in task.todo /\ TaskShape
        /\ UNCHANGED <<spoke, cluster, mcm, cachedMIC, reported, mw, queue, early>>
    BY DEF setMicAsDesired, Shape
  <1>2. CASE skip
    <2>1. /\ UNCHANGED mic /\ NextCluster(c)
          /\ \/ task.claims[c] = None /\ lost' = lost \ {c}
             \/ lost' = lost \cup {c}
      BY <1>2 DEF setMicAsDesired
    <2>2. /\ TaskShape' /\ SameTask /\ task'.spec = task.spec
          /\ task'.step = "clusters" /\ task'.todo = task.todo \ {c}
      BY <1>1, <2>1 DEF NextCluster, TaskShape, SameTask, Steps
    <2> QED BY <1>1, <2>1, <2>2
  <1>3. CASE ~skip
    <2>1. /\ mic' = [mic EXCEPT ![c] = Patched(c, Wanted(c))]
          /\ task' = [task EXCEPT !.step = "ready", !.current = c]
          /\ UNCHANGED lost
      BY <1>3 DEF setMicAsDesired, Wanted
    <2>2. /\ TaskShape' /\ SameTask /\ task'.spec = task.spec
          /\ task'.step = "ready" /\ task'.current = c /\ task'.todo = task.todo
      BY <1>1, <2>1 DEF TaskShape, SameTask, Steps
    <2> QED BY <1>1, <1>3, <2>1, <2>2
  <1> QED BY <1>2, <1>3

(* What the patch leaves behind.                                           *)
LEMMA PatchEffect ==
  ASSUME Shape, NEW c \in Clusters, mic' = [mic EXCEPT ![c] = Patched(c, Wanted(c))]
  PROVE  /\ MICs(mic)' /\ \A d \in Clusters : d # c => mic'[d] = mic[d]
         /\ mic'[c].exists /\ mic'[c].states = mic[c].states
         /\ mic'[c].owner = IF task.uid = cachedMIC[c].owner THEN mic[c].owner ELSE task.uid
         /\ mic'[c].images = IF Wanted(c) = cachedMIC[c].images THEN mic[c].images ELSE Wanted(c)
  <1> DEFINE owner == IF task.uid = cachedMIC[c].owner THEN mic[c].owner ELSE task.uid
             listed == IF Wanted(c) = cachedMIC[c].images THEN mic[c].images ELSE Wanted(c)
             trigger == Merged(mic[c].trigger, cachedMIC[c].trigger, task.trigger)
             new == [exists |-> TRUE, owner |-> owner, images |-> listed, trigger |-> trigger,
                     states |-> mic[c].states, applied |-> mic[c].applied]
  <1>1. mic' = [mic EXCEPT ![c] = new]
    BY DEF Patched, Merged
  <1>2. task.uid \in Nat /\ mic[c].owner \in Nat /\ MICs(mic)
    BY DEF Shape, TaskShape, MICShape, MICs, IsMIC
  <1>3. owner \in Nat
    BY <1>2
  <1> HIDE DEF owner, listed, trigger
  <1>4. IsMIC(new) /\ new.exists /\ new.owner = owner /\ new.images = listed /\ new.states = mic[c].states
    BY <1>3 DEF IsMIC
  <1> HIDE DEF new
  <1>5. MICs(mic)' /\ mic'[c] = new /\ \A d \in Clusters : d # c => mic'[d] = mic[d]
    <2>1. mic' = [d \in Clusters |-> mic'[d]] /\ mic'[c] = new /\ \A d \in Clusters : d # c => mic'[d] = mic[d]
      BY <1>1, <1>2, <1>4 DEF MICs
    <2>2. \A d \in Clusters : IsMIC(mic'[d])
      BY <1>1, <1>2, <1>4, <2>1 DEF MICs
    <2> QED BY <2>1, <2>2 DEF MICs
  <1> QED BY <1>4, <1>5 DEF owner, listed

LEMMA ReadyEffect ==
  ASSUME Shape, areImagesReady
  PROVE  /\ TaskShape' /\ SameTask /\ task'.spec = task.spec
         /\ task.step = "ready" /\ task.current \in task.todo /\ task.current \in Clusters
         /\ UNCHANGED <<spoke, cluster, mcm, mic, cachedMIC, reported, mw, queue, early>>
         /\ lost' = IF cachedMIC[task.current].exists THEN lost \ {task.current} ELSE lost \cup {task.current}
         /\ \/ /\ cachedMIC[task.current].exists /\ DoAllImagesExist(cachedMIC[task.current])
               /\ task'.step = "work" /\ task'.current = task.current /\ task'.todo = task.todo
               /\ task'.hasty <=> ~(Listed(Wanted(task.current)) \subseteq Listed(cachedMIC[task.current].images))
            \/ /\ ~(cachedMIC[task.current].exists /\ DoAllImagesExist(cachedMIC[task.current]))
               /\ task'.step = "clusters" /\ task'.todo = task.todo \ {task.current}
  <1> DEFINE c == task.current
             ready == cachedMIC[c].exists /\ DoAllImagesExist(cachedMIC[c])
             hasty == ~(Listed(Wanted(c)) \subseteq Listed(cachedMIC[c].images))
  <1>1. /\ TaskShape /\ task.step = "ready" /\ c \in task.todo /\ c \in Clusters
        /\ UNCHANGED <<spoke, cluster, mcm, mic, cachedMIC, reported, mw, queue, early>>
        /\ lost' = IF cachedMIC[c].exists THEN lost \ {c} ELSE lost \cup {c}
    BY DEF areImagesReady, Shape, AtCluster, TaskShape, images
  <1>2. CASE ready
    <2>1. task' = [task EXCEPT !.step = "work", !.hasty = hasty]
      BY <1>2 DEF areImagesReady, Wanted
    <2>2. hasty \in BOOLEAN
      OBVIOUS
    <2> HIDE DEF hasty
    <2>3. /\ TaskShape' /\ SameTask /\ task'.spec = task.spec /\ task'.step = "work"
          /\ task'.current = c /\ task'.todo = task.todo /\ task'.hasty = hasty
      BY <1>1, <2>1, <2>2 DEF TaskShape, SameTask, Steps
    <2> QED BY <1>1, <1>2, <2>3 DEF hasty
  <1>3. CASE ~ready
    <2>1. NextCluster(c)
      BY <1>3 DEF areImagesReady
    <2>2. /\ TaskShape' /\ SameTask /\ task'.spec = task.spec /\ task'.step = "clusters"
          /\ task'.todo = task.todo \ {c}
      BY <1>1, <2>1 DEF NextCluster, TaskShape, SameTask, Steps
    <2> QED BY <1>1, <1>3, <2>2
  <1> QED BY <1>2, <1>3

LEMMA WorkEffect ==
  ASSUME Shape, setManifestWork
  PROVE  /\ TaskShape' /\ SameTask
         /\ task.step = "work" /\ task.current \in task.todo /\ task.current \in Clusters
         /\ task'.step = "clusters" /\ task'.todo = task.todo \ {task.current}
         /\ UNCHANGED <<spoke, cluster, mcm, mic, cachedMIC, reported>>
         /\ queue' \in BOOLEAN /\ (queue \/ mw' # mw => queue')
         /\ lost' = lost \ {task.current}
         /\ early' = IF task.hasty THEN early \cup {task.current} ELSE early \ {task.current}
         /\ \E p \in {"live", "deleting"} :
               mw' = [mw EXCEPT ![task.current] =
                         [phase |-> p, owner |-> task.uid,
                          mappings |-> MappingsOf(task.spec, KernelVersions(task.claims[task.current])),
                          conditions |-> mw[task.current].conditions]]
  <1> DEFINE c == task.current
             versions == KernelVersions(task.claims[c])
             maps == MappingsOf(task.spec, versions)
             new == [mw[c] EXCEPT !.phase = IF @ = "none" THEN "live" ELSE @, !.owner = task.uid,
                                  !.mappings = maps]
  <1>1. /\ TaskShape /\ task.step = "work" /\ c \in task.todo /\ c \in Clusters
        /\ UNCHANGED <<spoke, cluster, mcm, mic, cachedMIC, reported>> /\ queue \in BOOLEAN
        /\ queue' \in BOOLEAN /\ (queue \/ mw' # mw => queue')
        /\ early' = IF task.hasty THEN early \cup {c} ELSE early \ {c}
    BY DEF setManifestWork, Shape, AtCluster, TaskShape, images
  <1>2. mw' = [mw EXCEPT ![c] = new] /\ lost' = lost \ {c}
    BY DEF setManifestWork
  <1>3. /\ TaskShape' /\ SameTask /\ task'.step = "clusters" /\ task'.todo = task.todo \ {c}
    BY <1>1, NextEffect DEF setManifestWork
  <1>4. \E p \in {"live", "deleting"} :
           new = [phase |-> p, owner |-> task.uid, mappings |-> maps, conditions |-> mw[c].conditions]
    <2> HIDE DEF maps
    <2>1. mw[c] \in [phase: Phases, owner: Nat, mappings: {mw[c].mappings}, conditions: {mw[c].conditions}]
      BY <1>1 DEF Shape, WorkShape
    <2> DEFINE ph == IF mw[c].phase = "none" THEN "live" ELSE mw[c].phase
    <2>2. new = [phase |-> ph, owner |-> task.uid, mappings |-> maps, conditions |-> mw[c].conditions]
      <3>1. new = [mw[c] EXCEPT !.phase = ph, !.owner = task.uid, !.mappings = maps]
        OBVIOUS
      <3> HIDE DEF ph, new
      <3> QED BY <2>1, <3>1
    <2>3. ph \in {"live", "deleting"}
      BY <2>1 DEF Phases
    <2> HIDE DEF new
    <2> QED BY <2>2, <2>3
  <1> HIDE DEF new, maps
  <1>5. \E p \in {"live", "deleting"} :
           mw' = [mw EXCEPT ![c] = [phase |-> p, owner |-> task.uid, mappings |-> maps,
                                    conditions |-> mw[c].conditions]]
    BY <1>2, <1>4
  <1> QED BY <1>1, <1>2, <1>3, <1>5 DEF maps

LEMMA CollectEffect ==
  ASSUME Shape, GarbageCollect
  PROVE  /\ TaskShape' /\ task.step = "clusters" /\ task.todo = {}
         /\ UNCHANGED <<spoke, cluster, mcm, mic, cachedMIC, reported, lost, early>>
         /\ queue' \in BOOLEAN /\ (queue \/ mw' # mw => queue')
         /\ \/ task'.step = "idle" /\ queue' /\ task' = Idle
            \/ /\ task'.step = "updateStatus" /\ SameTask /\ task'.todo = task.todo
               /\ \A c \in Clusters \ DOMAIN task.claims : mw'[c].phase # "live"
         /\ WorkShape'
         /\ \A c \in Clusters : /\ mw'[c].phase \in {mw[c].phase, "deleting"}
                                /\ mw'[c].phase # "none" => mw[c].phase # "none"
                                /\ mw'[c].owner = mw[c].owner /\ mw'[c].mappings = mw[c].mappings
         /\ \A c \in DOMAIN task.claims \cap Clusters : mw'[c] = mw[c]
  <1> DEFINE unmatched == {c \in Clusters \ DOMAIN task.claims : mw[c].phase # "none"}
  <1>1. /\ task.step = "clusters" /\ task.todo = {} /\ UNCHANGED <<spoke, cluster, mcm, mic, cachedMIC, reported, lost, early>>
        /\ TaskShape /\ WorkShape /\ queue \in BOOLEAN
    BY DEF GarbageCollect, Shape, images
  <1>2. PICK deleted \in SUBSET unmatched :
            /\ mw' = [c \in Clusters |-> IF c \in deleted THEN [mw[c] EXCEPT !.phase = "deleting"]
                                         ELSE mw[c]]
            /\ queue' = (queue \/ mw' # mw \/ deleted # unmatched)
            /\ task' = IF deleted = unmatched THEN [task EXCEPT !.step = "updateStatus"] ELSE Idle
    BY DEF GarbageCollect
  <1>3. \A c \in Clusters : mw'[c] = IF c \in deleted THEN [mw[c] EXCEPT !.phase = "deleting"] ELSE mw[c]
    BY <1>2
  <1>4. /\ WorkShape'
        /\ \A c \in Clusters : /\ mw'[c].phase \in {mw[c].phase, "deleting"}
                               /\ c \in deleted => mw'[c].phase = "deleting"
                               /\ mw'[c].phase # "none" => mw[c].phase # "none"
                               /\ mw'[c].owner = mw[c].owner /\ mw'[c].mappings = mw[c].mappings
    <2>1. ASSUME NEW c \in Clusters
          PROVE  /\ mw'[c] \in [phase: Phases, owner: Nat, mappings: {mw'[c].mappings},
                                conditions: {mw'[c].conditions}]
                 /\ mw'[c].phase \in {mw[c].phase, "deleting"}
                 /\ c \in deleted => mw'[c].phase = "deleting"
                 /\ mw'[c].phase # "none" => mw[c].phase # "none"
                 /\ mw'[c].owner = mw[c].owner /\ mw'[c].mappings = mw[c].mappings
      <3>1. mw[c] \in [phase: Phases, owner: Nat, mappings: {mw[c].mappings},
                       conditions: {mw[c].conditions}]
        BY <1>1 DEF WorkShape
      <3>2. CASE c \in deleted
        <4>1. mw'[c] = [mw[c] EXCEPT !.phase = "deleting"] /\ mw[c].phase # "none"
          BY <1>2, <1>3, <3>2
        <4> QED BY <3>1, <4>1 DEF Phases
      <3>3. CASE c \notin deleted
        BY <1>3, <3>1, <3>3
      <3> QED BY <3>2, <3>3
    <2>2. mw' = [c \in Clusters |-> mw'[c]]
      BY <1>2
    <2> QED BY <2>1, <2>2 DEF WorkShape
  <1>5. CASE deleted # unmatched
    <2>1. task' = Idle /\ queue'
      BY <1>2, <1>5
    <2>2. TaskShape' /\ task'.step = "idle"
      BY <2>1 DEF Idle, TaskShape, Steps
    <2> QED BY <1>1, <1>2, <1>3, <1>4, <2>1, <2>2
  <1>6. CASE deleted = unmatched
    <2>1. /\ task' = [task EXCEPT !.step = "updateStatus"]
      BY <1>2, <1>6
    <2>2. TaskShape' /\ task'.step = "updateStatus" /\ SameTask /\ task'.todo = task.todo
      BY <1>1, <2>1 DEF TaskShape, SameTask, Steps
    <2>3. \A c \in Clusters \ DOMAIN task.claims : mw'[c].phase # "live"
      BY <1>3, <1>4, <1>6
    <2> QED BY <1>1, <1>2, <1>3, <1>4, <2>2, <2>3
  <1> QED BY <1>5, <1>6

LEMMA FailEffect ==
  ASSUME Shape, ClusterCallFails
  PROVE  /\ UNCHANGED <<spoke, cluster, mcm, mic, cachedMIC, reported, mw, queue, early>>
         /\ TaskShape' /\ SameTask /\ task'.step = "clusters" /\ task.step \in {"clusters", "ready", "work"}
         /\ \E c \in task.todo : task'.todo = task.todo \ {c} /\ lost' = lost \cup {c}
  <1>1. PICK c \in task.todo :
            /\ lost' = lost \cup {c}
            /\ task.step \in {"clusters", "ready", "work"}
            /\ \E spec : task' = [task EXCEPT !.step = "clusters", !.todo = @ \ {c}, !.current = None,
                                              !.hasty = FALSE, !.spec = spec]
    BY DEF ClusterCallFails, Shape, AtCluster
  <1>2. /\ c \in Clusters /\ TaskShape
        /\ UNCHANGED <<spoke, cluster, mcm, mic, cachedMIC, reported, mw, queue, early>>
    BY DEF Shape, TaskShape, ClusterCallFails, images
  <1>3. PICK spec : task' = [task EXCEPT !.step = "clusters", !.todo = @ \ {c}, !.current = None,
                                         !.hasty = FALSE, !.spec = spec]
    BY <1>1
  <1>4. TaskShape' /\ SameTask /\ task'.step = "clusters" /\ task'.todo = task.todo \ {c}
    BY <1>2, <1>3, NextEffect
  <1> QED BY <1>1, <1>2, <1>4

(* The rest of the system.                                                 *)
LEMMA UserEffect ==
  ASSUME Shape, CreateMCM \/ EditMCM \/ TriggerRebuild \/ DeleteMCM
  PROVE  /\ MCMShape' /\ queue' = TRUE
         /\ UNCHANGED <<cluster, mic, cachedMIC, reported, mw, task, lost, early>>
         /\ mcm'.uid >= mcm.uid
  <1>1. /\ MCMShape /\ queue' = TRUE
        /\ UNCHANGED <<cluster, mic, cachedMIC, reported, mw, task, lost, early>>
    BY DEF Shape, CreateMCM, EditMCM, TriggerRebuild, DeleteMCM, images
  <1>2. CASE CreateMCM
    <2>1. PICK s \in Specs, e \in BOOLEAN :
             mcm' = [exists |-> TRUE, uid |-> mcm.uid + 1, everything |-> e, spec |-> s,
                     trigger |-> 0, status |-> NoCounts]
      BY <1>2 DEF CreateMCM
    <2> QED BY <1>1, <2>1 DEF MCMShape
  <1>3. CASE EditMCM
    <2>1. PICK s \in Specs, e \in BOOLEAN : mcm' = [mcm EXCEPT !.everything = e, !.spec = s]
      BY <1>3 DEF EditMCM
    <2>2. MCMShape' /\ mcm'.uid = mcm.uid /\ mcm.uid \in Nat
      BY <1>1, <2>1 DEF MCMShape
    <2> QED BY <1>1, <2>2
  <1>4. CASE TriggerRebuild
    <2>1. mcm' = [mcm EXCEPT !.trigger = mcm.trigger + 1]
      BY <1>4 DEF TriggerRebuild
    <2> QED BY <1>1, <2>1 DEF MCMShape
  <1>5. CASE DeleteMCM
    <2>1. mcm' = [NoMCM EXCEPT !.uid = mcm.uid]
      BY <1>5 DEF DeleteMCM
    <2>2. MCMShape' /\ mcm'.uid = mcm.uid /\ mcm.uid \in Nat
      BY <1>1, <2>1 DEF MCMShape, NoMCM
    <2> QED BY <1>1, <2>2
  <1> QED BY <1>2, <1>3, <1>4, <1>5

LEMMA StatusEffect ==
  ASSUME Shape, ManagedClusterModuleUpdateStatus
  PROVE  /\ MCMShape' /\ TaskShape' /\ task' = Idle /\ task'.step = "idle" /\ task.step = "updateStatus"
         /\ UNCHANGED <<cluster, mic, cachedMIC, reported, mw, lost, early>>
         /\ queue' \in BOOLEAN /\ (queue \/ ~mcm.exists => queue')
         /\ mcm'.exists = mcm.exists /\ mcm'.uid = mcm.uid /\ mcm'.spec = mcm.spec
         /\ mcm'.everything = mcm.everything
         /\ mcm.exists => mcm'.status = Counts
  <1>1. /\ MCMShape /\ task' = Idle /\ UNCHANGED <<cluster, mic, cachedMIC, reported, mw, lost, early>> /\ queue \in BOOLEAN
        /\ queue' = (queue \/ mcm' # mcm \/ ~mcm.exists) /\ task.step = "updateStatus"
    BY DEF Shape, ManagedClusterModuleUpdateStatus, images
  <1>2. mcm' = IF mcm.exists THEN [mcm EXCEPT !.status = Counts] ELSE mcm
    BY DEF ManagedClusterModuleUpdateStatus
  <1>3. TaskShape' /\ task'.step = "idle"
    BY <1>1 DEF Idle, TaskShape, Steps
  <1>4. /\ MCMShape' /\ mcm'.exists = mcm.exists /\ mcm'.uid = mcm.uid /\ mcm'.spec = mcm.spec
        /\ mcm'.everything = mcm.everything
        /\ mcm.exists => mcm'.status = Counts
    BY <1>1, <1>2 DEF MCMShape
  <1> QED BY <1>1, <1>3, <1>4

LEMMA StartEffect ==
  ASSUME Shape, StartReconcile
  PROVE  /\ TaskShape' /\ UNCHANGED <<cluster, mcm, mic, cachedMIC, reported, mw, lost, early>> /\ task.step = "idle"
         /\ queue /\ queue' = FALSE
         /\ \/ ~mcm.exists /\ task' = Idle /\ task'.step = "idle"
            \/ /\ mcm.exists /\ task'.step = "clusters" /\ task'.uid = mcm.uid /\ task'.spec = mcm.spec
               /\ task'.claims = [c \in SelectedManagedClusters |-> cluster[c].claim]
               /\ task'.todo = SelectedManagedClusters
  <1>1. MCMShape
    BY DEF Shape
  <1>2. /\ UNCHANGED <<cluster, mcm, mic, cachedMIC, reported, mw, lost, early>> /\ queue /\ queue' = FALSE
        /\ task.step = "idle"
    BY DEF StartReconcile, images
  <1>3. CASE ~mcm.exists
    BY <1>2, <1>3 DEF StartReconcile, Idle, TaskShape, Steps
  <1>4. CASE mcm.exists
    <2>1. SelectedManagedClusters \subseteq Clusters
      BY DEF SelectedManagedClusters
    <2>2. task' = [step |-> "clusters", uid |-> mcm.uid, spec |-> mcm.spec,
                   trigger |-> mcm.trigger, claims |-> [c \in SelectedManagedClusters |-> cluster[c].claim],
                   todo |-> SelectedManagedClusters, current |-> None, hasty |-> FALSE]
      BY <1>4 DEF StartReconcile
    <2> QED BY <1>1, <1>2, <1>4, <2>1, <2>2 DEF TaskShape, MCMShape, Steps
  <1> QED BY <1>3, <1>4

(* The pipeline: states are added, or all forgotten, and what exists is    *)
(* reported.                                                               *)
LEMMA PipelineEffect ==
  ASSUME Shape, NEW c \in Clusters, Pipeline(c)
  PROVE  /\ MICShape' /\ UNCHANGED <<cluster, mcm, cachedMIC, mw, queue, task, lost, early>>
         /\ \A d \in Clusters : /\ d # c => mic'[d] = mic[d]
                                /\ mic'[d].exists = mic[d].exists /\ mic'[d].owner = mic[d].owner
                                /\ mic'[d].images = mic[d].images
                                /\ reported[d] \subseteq reported'[d]
         /\ \A s \in mic'[c].states : s \in mic[c].states \/ (s.state = "ImageExists" => s.image \in reported'[c])
  <1>1. MICs(mic) /\ MICs(cachedMIC) /\ reported = [d \in Clusters |-> reported[d]] /\ IsMIC(mic[c])
    BY DEF Shape, MICShape, MICs
  <1>2. UNCHANGED <<cluster, mcm, cachedMIC, mw, queue, task, lost, early>>
    BY DEF Pipeline, MICAnswers, ResetMIC
  <1>3. CASE MICAnswers(c)
    <2>1. PICK i \in mic[c].images, state \in {"ImageExists", "ImageDoesNotExist"} :
             /\ mic' = [mic EXCEPT ![c].states = @ \cup {[image |-> i.image, state |-> state]}]
             /\ reported' = [reported EXCEPT ![c] = IF state = "ImageExists" THEN @ \cup {i.image} ELSE @]
      BY <1>3 DEF MICAnswers
    <2> DEFINE states == mic[c].states \cup {[image |-> i.image, state |-> state]}
               new == [mic[c] EXCEPT !.states = states]
    <2>2. mic' = [mic EXCEPT ![c] = new]
      BY <2>1
    <2>3. \A s \in states : s \in mic[c].states \/ (s.image = i.image /\ s.state = state)
      OBVIOUS
    <2> HIDE DEF states
    <2>4. /\ IsMIC(new) /\ new.exists = mic[c].exists /\ new.owner = mic[c].owner
          /\ new.images = mic[c].images /\ new.states = states
      BY <1>1 DEF IsMIC
    <2> HIDE DEF new
    <2>5. MICs(mic)' /\ mic'[c] = new /\ \A d \in Clusters : d # c => mic'[d] = mic[d]
      <3>1. mic' = [d \in Clusters |-> mic'[d]] /\ mic'[c] = new /\ \A d \in Clusters : d # c => mic'[d] = mic[d]
        BY <1>1, <2>2, <2>4 DEF MICs
      <3>2. \A d \in Clusters : IsMIC(mic'[d])
        BY <1>1, <2>2, <2>4, <3>1 DEF MICs
      <3> QED BY <3>1, <3>2 DEF MICs
    <2>6. /\ reported' = [d \in Clusters |-> reported'[d]]
          /\ \A d \in Clusters : reported[d] \subseteq reported'[d]
          /\ state = "ImageExists" => i.image \in reported'[c]
      BY <1>1, <2>1
    <2>7. MICShape'
      BY <1>1, <1>2, <2>5, <2>6 DEF MICShape
    <2>8. \A s \in mic'[c].states : s \in mic[c].states \/ (s.state = "ImageExists" => s.image \in reported'[c])
      BY <2>3, <2>4, <2>5, <2>6
    <2> QED BY <1>2, <2>4, <2>5, <2>6, <2>7, <2>8
  <1>4. CASE ResetMIC(c)
    <2> DEFINE new == [mic[c] EXCEPT !.states = {}, !.applied = mic[c].trigger]
    <2>1. mic' = [mic EXCEPT ![c] = new] /\ UNCHANGED reported
      BY <1>1, <1>4 DEF ResetMIC, MICs
    <2>2. /\ IsMIC(new) /\ new.exists = mic[c].exists /\ new.owner = mic[c].owner
          /\ new.images = mic[c].images /\ new.states = {}
      BY <1>1 DEF IsMIC
    <2> HIDE DEF new
    <2>3. MICs(mic)' /\ mic'[c] = new /\ \A d \in Clusters : d # c => mic'[d] = mic[d]
      <3>1. mic' = [d \in Clusters |-> mic'[d]] /\ mic'[c] = new /\ \A d \in Clusters : d # c => mic'[d] = mic[d]
        BY <1>1, <2>1, <2>2 DEF MICs
      <3>2. \A d \in Clusters : IsMIC(mic'[d])
        BY <1>1, <2>1, <2>2, <3>1 DEF MICs
      <3> QED BY <3>1, <3>2 DEF MICs
    <2>4. MICShape'
      BY <1>1, <1>2, <2>1, <2>3 DEF MICShape
    <2> QED BY <1>2, <2>1, <2>2, <2>3, <2>4
  <1> QED BY <1>3, <1>4 DEF Pipeline

LEMMA DeliverEffect ==
  ASSUME Shape, NEW c \in Clusters, DeliverMIC(c)
  PROVE  /\ MICShape' /\ UNCHANGED <<cluster, mcm, mic, reported, mw, task, lost, early>>
         /\ cachedMIC'[c] = mic[c] /\ \A d \in Clusters : d # c => cachedMIC'[d] = cachedMIC[d]
         /\ queue' \in BOOLEAN /\ (queue => queue') /\ (cachedMIC[c].exists /\ mic[c].exists => queue')
  <1>1. MICs(mic) /\ MICs(cachedMIC) /\ reported = [d \in Clusters |-> reported[d]] /\ IsMIC(mic[c])
    BY DEF Shape, MICShape, MICs
  <1>2. /\ UNCHANGED <<cluster, mcm, mic, reported, mw, task, lost, early>>
        /\ cachedMIC' = [cachedMIC EXCEPT ![c] = mic[c]]
        /\ queue' \in BOOLEAN /\ (queue => queue') /\ (cachedMIC[c].exists /\ mic[c].exists => queue')
    BY DEF DeliverMIC
  <1>3. MICs(cachedMIC)' /\ cachedMIC'[c] = mic[c] /\ \A d \in Clusters : d # c => cachedMIC'[d] = cachedMIC[d]
    <2>1. cachedMIC' = [d \in Clusters |-> cachedMIC'[d]] /\ cachedMIC'[c] = mic[c] /\ \A d \in Clusters : d # c => cachedMIC'[d] = cachedMIC[d]
      BY <1>1, <1>2 DEF MICs
    <2>2. \A d \in Clusters : IsMIC(cachedMIC'[d])
      BY <1>1, <1>2, <2>1 DEF MICs
    <2> QED BY <2>1, <2>2 DEF MICs
  <1>4. MICShape'
    BY <1>1, <1>2, <1>3 DEF MICShape
  <1> QED BY <1>2, <1>3, <1>4

LEMMA CollectMICEffect ==
  ASSUME Shape, NEW c \in Clusters, CollectMIC(c)
  PROVE  /\ MICShape' /\ UNCHANGED <<cluster, mcm, cachedMIC, reported, mw, queue, task, lost, early>>
         /\ mic[c].exists /\ Orphan(mic[c].owner)
         /\ mic'[c] = NoMIC /\ \A d \in Clusters : d # c => mic'[d] = mic[d]
  <1>1. MICs(mic) /\ MICs(cachedMIC) /\ reported = [d \in Clusters |-> reported[d]]
    BY DEF Shape, MICShape
  <1>2. /\ mic' = [mic EXCEPT ![c] = NoMIC] /\ mic[c].exists /\ Orphan(mic[c].owner)
        /\ UNCHANGED <<cluster, mcm, cachedMIC, reported, mw, queue, task, lost, early>>
    BY DEF CollectMIC
  <1>3. IsMIC(NoMIC)
    BY DEF NoMIC, IsMIC
  <1>4. MICs(mic)' /\ mic'[c] = NoMIC /\ \A d \in Clusters : d # c => mic'[d] = mic[d]
    <2>1. mic' = [d \in Clusters |-> mic'[d]] /\ mic'[c] = NoMIC /\ \A d \in Clusters : d # c => mic'[d] = mic[d]
      BY <1>1, <1>2, <1>3 DEF MICs
    <2>2. \A d \in Clusters : IsMIC(mic'[d])
      BY <1>1, <1>2, <1>3, <2>1 DEF MICs
    <2> QED BY <2>1, <2>2 DEF MICs
  <1>5. MICShape'
    BY <1>1, <1>2, <1>4 DEF MICShape
  <1> QED BY <1>2, <1>4, <1>5

(* What the agents do to a ManifestWork is an event.                       *)
LEMMA AgentEffect ==
  ASSUME Shape, NEW c \in Clusters, CollectWork(c) \/ WorkGone(c) \/ WorkReports(c)
  PROVE  /\ WorkShape' /\ queue' = TRUE
         /\ UNCHANGED <<cluster, mcm, mic, cachedMIC, reported, task, lost, early>>
         /\ \A d \in Clusters : d # c => mw'[d] = mw[d]
         /\ \/ mw'[c].phase = "none" /\ mw'[c].owner = 0
            \/ /\ mw[c].phase # "none" /\ mw'[c].owner = mw[c].owner
               /\ mw'[c].mappings = mw[c].mappings
  <1>1. WorkShape
    BY DEF Shape
  <1>2. CASE CollectWork(c)
    <2>1. mw' = [mw EXCEPT ![c] = [mw[c] EXCEPT !.phase = "deleting"]] /\ mw[c].phase = "live"
      BY <1>2 DEF CollectWork
    <2>2. /\ mw' = [d \in Clusters |-> mw'[d]] /\ \A d \in Clusters : d # c => mw'[d] = mw[d]
          /\ mw'[c] = [mw[c] EXCEPT !.phase = "deleting"]
      BY <1>1, <2>1 DEF WorkShape
    <2>3. WorkShape' /\ mw'[c].owner = mw[c].owner /\ mw'[c].mappings = mw[c].mappings
      BY <1>1, <2>2 DEF WorkShape, Phases
    <2> QED BY <1>2, <2>1, <2>2, <2>3 DEF images, CollectWork
  <1>3. CASE WorkGone(c)
    <2>1. mw' = [mw EXCEPT ![c] = NoWork]
      BY <1>3 DEF WorkGone
    <2>2. /\ mw' = [d \in Clusters |-> mw'[d]] /\ \A d \in Clusters : d # c => mw'[d] = mw[d]
          /\ mw'[c] = NoWork
      BY <1>1, <2>1 DEF WorkShape
    <2>3. WorkShape' /\ mw'[c].phase = "none" /\ mw'[c].owner = 0
      BY <1>1, <2>2 DEF WorkShape, Phases, NoWork
    <2> QED BY <1>3, <2>2, <2>3 DEF images, WorkGone
  <1>4. CASE WorkReports(c)
    <2>1. PICK cond : mw' = [mw EXCEPT ![c].conditions = cond]
      BY <1>4 DEF WorkReports
    <2>2. /\ mw' = [d \in Clusters |-> mw'[d]] /\ \A d \in Clusters : d # c => mw'[d] = mw[d]
          /\ mw'[c] = [mw[c] EXCEPT !.conditions = cond]
      BY <1>1, <2>1 DEF WorkShape
    <2>3. WorkShape' /\ mw'[c].owner = mw[c].owner /\ mw'[c].mappings = mw[c].mappings
      BY <1>1, <2>2 DEF WorkShape, Phases
    <2> QED BY <1>1, <1>4, <2>2, <2>3 DEF images, WorkReports, WorkShape
  <1> QED BY <1>2, <1>3, <1>4

(* The spokes' own affairs, and what the hub hears of them.                *)
LEMMA SpokeEffect ==
  ASSUME NEW c \in Clusters, ReconcileClaim(c) \/ NodeChanges(c) \/ DeleteClaim(c)
  PROVE  UNCHANGED <<cluster, mcm, mic, cachedMIC, reported, mw, queue, task, lost, early>>
  BY DEF images, ReconcileClaim, NodeChanges, DeleteClaim

LEMMA HearEffect ==
  ASSUME Shape, NEW c \in Clusters, ReportClaim(c) \/ RelabelCluster(c)
  PROVE  UNCHANGED <<mcm, mic, cachedMIC, reported, mw, task, lost, early>> /\ queue' \in BOOLEAN /\ (queue => queue')
  BY DEF images, ReportClaim, RelabelCluster, Shape

LEMMA CallFailsEffect ==
  ASSUME CallFails
  PROVE  /\ UNCHANGED <<cluster, mcm, mic, cachedMIC, reported, mw, lost, early>> /\ queue' = TRUE
         /\ task' = Idle /\ task'.step = "idle" /\ TaskShape'
  BY DEF images, CallFails, Idle, TaskShape, Steps

LEMMA ShapeInit == Init => Shape
  <1> SUFFICES ASSUME Init PROVE Shape
    OBVIOUS
  <1>1. TaskShape /\ AtCluster
    BY DEF Init, Idle, TaskShape, AtCluster, Steps
  <1>2. MCMShape
    BY DEF Init, NoMCM, MCMShape
  <1>3. MICShape
    <2>1. mic = [c \in Clusters |-> NoMIC] /\ cachedMIC = mic /\ reported = [c \in Clusters |-> {}]
      BY DEF Init
    <2>2. IsMIC(NoMIC)
      BY DEF NoMIC, IsMIC
    <2>3. MICs(mic)
      BY <2>1, <2>2 DEF MICs
    <2> QED BY <2>1, <2>3 DEF MICShape
  <1>4. WorkShape
    <2>1. mw = [c \in Clusters |-> NoWork]
      BY DEF Init
    <2>2. NoWork \in [phase: Phases, owner: Nat, mappings: {NoWork.mappings}, conditions: {NoWork.conditions}]
      BY DEF NoWork, Phases
    <2> QED BY <2>1, <2>2 DEF WorkShape
  <1> QED BY <1>1, <1>2, <1>3, <1>4 DEF Shape, Init

LEMMA ShapeStep == Shape /\ [Next]_vars => Shape'
  <1> SUFFICES ASSUME Shape, [Next]_vars PROVE Shape'
    OBVIOUS
  <1>0. TaskShape /\ MCMShape /\ MICShape /\ WorkShape /\ AtCluster /\ queue \in BOOLEAN
    BY DEF Shape
  <1>1. CASE StartReconcile
    BY <1>0, <1>1, StartEffect DEF Shape, MCMShape, MICShape, MICs, WorkShape, AtCluster
  <1>2. ASSUME NEW c \in Clusters, setMicAsDesired(c)
        PROVE  Shape'
    <2>1. /\ TaskShape' /\ AtCluster' /\ UNCHANGED <<mcm, mw, queue, cachedMIC, reported>>
      BY <1>0, <1>2, MicEffect DEF AtCluster
    <2>2. MICs(mic)'
      <3>1. CASE UNCHANGED mic
        BY <1>0, <3>1 DEF MICShape, MICs
      <3>2. CASE mic' = [mic EXCEPT ![c] = Patched(c, Wanted(c))]
        BY <3>2, PatchEffect
      <3> QED BY <1>2, <3>1, <3>2, MicEffect
    <2>3. MICShape'
      BY <1>0, <2>1, <2>2 DEF MICShape
    <2> QED BY <1>0, <2>1, <2>3 DEF Shape, MCMShape, WorkShape
  <1>3. CASE areImagesReady
    BY <1>0, <1>3, ReadyEffect DEF Shape, MCMShape, MICShape, MICs, WorkShape, AtCluster
  <1>4. CASE setManifestWork
    <2>1. /\ TaskShape' /\ AtCluster' /\ queue' \in BOOLEAN /\ UNCHANGED <<mcm, mic, cachedMIC, reported>>
      BY <1>4, WorkEffect DEF AtCluster
    <2>0. task.current \in Clusters /\ task.uid \in Nat
      BY <1>0, <1>4, WorkEffect DEF TaskShape
    <2>6. PICK p \in {"live", "deleting"} :
             mw' = [mw EXCEPT ![task.current] =
                       [phase |-> p, owner |-> task.uid,
                        mappings |-> MappingsOf(task.spec, KernelVersions(task.claims[task.current])),
                        conditions |-> mw[task.current].conditions]]
      BY <1>4, WorkEffect
    <2> DEFINE new == [phase |-> p, owner |-> task.uid,
                       mappings |-> MappingsOf(task.spec, KernelVersions(task.claims[task.current])),
                       conditions |-> mw[task.current].conditions]
    <2>2. new \in [phase: Phases, owner: Nat, mappings: {new.mappings}, conditions: {new.conditions}]
      BY <2>0 DEF Phases
    <2>3. mw' = [mw EXCEPT ![task.current] = new]
      BY <2>6
    <2> HIDE DEF new
    <2>4. /\ mw' = [d \in Clusters |-> mw'[d]] /\ mw'[task.current] = new
          /\ \A d \in Clusters : d # task.current => mw'[d] = mw[d]
      BY <1>0, <2>0, <2>3 DEF WorkShape
    <2>5. WorkShape'
      BY <1>0, <2>2, <2>4 DEF WorkShape
    <2> QED BY <1>0, <2>1, <2>5 DEF Shape, MCMShape, MICShape
  <1>5. CASE GarbageCollect
    BY <1>0, <1>5, CollectEffect DEF Shape, MCMShape, MICShape, MICs, AtCluster
  <1>6. CASE ManagedClusterModuleUpdateStatus
    BY <1>0, <1>6, StatusEffect DEF Shape, MICShape, MICs, WorkShape, AtCluster
  <1>7. CASE ClusterCallFails
    BY <1>0, <1>7, FailEffect DEF Shape, MCMShape, MICShape, MICs, WorkShape, AtCluster
  <1>8. CASE CallFails
    BY <1>0, <1>8, CallFailsEffect DEF Shape, MCMShape, MICShape, MICs, WorkShape, AtCluster
  <1>9. ASSUME NEW c \in Clusters, Pipeline(c) PROVE Shape'
    BY <1>0, <1>9, PipelineEffect DEF Shape, TaskShape, MCMShape, WorkShape, AtCluster
  <1>10. ASSUME NEW c \in Clusters, CollectMIC(c) PROVE Shape'
    BY <1>0, <1>10, CollectMICEffect DEF Shape, TaskShape, MCMShape, WorkShape, AtCluster
  <1>16. ASSUME NEW c \in Clusters, DeliverMIC(c) PROVE Shape'
    BY <1>0, <1>16, DeliverEffect DEF Shape, TaskShape, MCMShape, WorkShape, AtCluster
  <1>11. ASSUME NEW c \in Clusters, CollectWork(c) \/ WorkGone(c) \/ WorkReports(c) PROVE Shape'
    BY <1>0, <1>11, AgentEffect DEF Shape, TaskShape, MCMShape, MICShape, MICs, AtCluster
  <1>12. ASSUME NEW c \in Clusters, ReportClaim(c) \/ RelabelCluster(c) PROVE Shape'
    BY <1>0, <1>12, HearEffect DEF Shape, TaskShape, MCMShape, MICShape, MICs, WorkShape, AtCluster
  <1>13. ASSUME NEW c \in Clusters, ReconcileClaim(c) \/ NodeChanges(c) \/ DeleteClaim(c) PROVE Shape'
    BY <1>0, <1>13, SpokeEffect DEF Shape, TaskShape, MCMShape, MICShape, MICs, WorkShape, AtCluster
  <1>14. CASE CreateMCM \/ EditMCM \/ TriggerRebuild \/ DeleteMCM
    BY <1>0, <1>14, UserEffect DEF Shape, TaskShape, MICShape, MICs, WorkShape, AtCluster
  <1>15. CASE UNCHANGED vars
    BY <1>0, <1>15 DEF Shape, TaskShape, MCMShape, MICShape, MICs, WorkShape, AtCluster, vars, images
  <1> QED
    BY <1>1, <1>2, <1>3, <1>4, <1>5, <1>6, <1>7, <1>8, <1>9, <1>10, <1>11, <1>12, <1>13, <1>14, <1>15, <1>16
    DEF Next, Work, Agents, Environment

-----------------------------------------------------------------------------
(* The status at rest                                                      *)

LEMMA StatusStep == Shape /\ StatusRestsRight /\ [Next]_vars => StatusRestsRight'
  <1> SUFFICES ASSUME Shape, StatusRestsRight, [Next]_vars, AtRest', mcm'.exists
               PROVE  mcm'.status = Counts'
    BY DEF StatusRestsRight
  <1>0. ~queue' /\ task'.step = "idle"
    BY DEF AtRest
  <1>a. UNCHANGED <<mcm, mw>> /\ task.step = "idle" /\ ~queue => mcm'.status = Counts'
    <2> SUFFICES ASSUME UNCHANGED <<mcm, mw>>, task.step = "idle", ~queue PROVE mcm'.status = Counts'
      OBVIOUS
    <2>1. Counts' = Counts
      BY DEF Counts, Works
    <2>2. mcm.status = Counts
      BY DEF StatusRestsRight, AtRest
    <2> QED BY <2>1, <2>2
  <1>1. CASE StartReconcile
    BY <1>0, <1>1, StartEffect
  <1>2. ASSUME NEW c \in Clusters, setMicAsDesired(c) PROVE FALSE
    BY <1>0, <1>2, MicEffect
  <1>3. CASE areImagesReady
    BY <1>0, <1>3, ReadyEffect
  <1>4. CASE setManifestWork
    BY <1>0, <1>4, WorkEffect
  <1>5. CASE GarbageCollect
    BY <1>0, <1>5, CollectEffect
  <1>6. CASE ManagedClusterModuleUpdateStatus
    <2>1. UNCHANGED mw /\ mcm'.status = Counts
      BY <1>0, <1>6, StatusEffect
    <2> QED BY <2>1 DEF Counts, Works
  <1>7. CASE ClusterCallFails
    BY <1>0, <1>7, FailEffect
  <1>8. CASE CallFails
    BY <1>0, <1>8, CallFailsEffect
  <1>9. ASSUME NEW c \in Clusters, Pipeline(c) PROVE mcm'.status = Counts'
    BY <1>0, <1>a, <1>9, PipelineEffect
  <1>16. ASSUME NEW c \in Clusters, DeliverMIC(c) PROVE mcm'.status = Counts'
    BY <1>0, <1>a, <1>16, DeliverEffect
  <1>10. ASSUME NEW c \in Clusters, CollectMIC(c) PROVE mcm'.status = Counts'
    BY <1>0, <1>a, <1>10, CollectMICEffect
  <1>11. ASSUME NEW c \in Clusters, CollectWork(c) \/ WorkGone(c) \/ WorkReports(c) PROVE FALSE
    BY <1>0, <1>11, AgentEffect
  <1>12. ASSUME NEW c \in Clusters, ReportClaim(c) \/ RelabelCluster(c) PROVE mcm'.status = Counts'
    BY <1>0, <1>a, <1>12, HearEffect
  <1>13. ASSUME NEW c \in Clusters, ReconcileClaim(c) \/ NodeChanges(c) \/ DeleteClaim(c)
         PROVE  mcm'.status = Counts'
    BY <1>0, <1>a, <1>13, SpokeEffect
  <1>14. CASE CreateMCM \/ EditMCM \/ TriggerRebuild \/ DeleteMCM
    BY <1>0, <1>14, UserEffect
  <1>15. CASE UNCHANGED vars
    BY <1>0, <1>a, <1>15 DEF vars
  <1> QED
    BY <1>1, <1>2, <1>3, <1>4, <1>5, <1>6, <1>7, <1>8, <1>9, <1>10, <1>11, <1>12, <1>13, <1>14, <1>15, <1>16
    DEF Next, Work, Agents, Environment

(* Whenever the controller rests, the status of the ManagedClusterModule   *)
(* counts the ManifestWorks there are and what their agents report,        *)
(* whatever happened between the List of a Reconcile and its patch         *)
(* (ManagedClusterModuleUpdateStatus): every change it could miss is an    *)
(* event.                                                                  *)
THEOREM StatusCountsAtRest == Spec => []StatusRestsRight
  <1>1. Init => StatusRestsRight
    BY DEF Init, StatusRestsRight, NoMCM
  <1> QED BY <1>1, ShapeInit, ShapeStep, StatusStep, PTL DEF Spec

-----------------------------------------------------------------------------
(* No ManifestWork ahead of its images                                     *)

(* What a ModuleImagesConfig or its copy says exists was reported...       *)
StatesReported ==
    \A c \in Clusters : \A s \in mic[c].states \cup cachedMIC[c].states :
        s.state = "ImageExists" => s.image \in reported[c]

(* ...so a Reconcile that looked at a copy with all its images ships what  *)
(* was reported.                                                           *)
WorkReady ==
    task.step = "work" /\ ~task.hasty => Listed(Wanted(task.current)) \subseteq reported[task.current]

ShipInv == StatesReported /\ WorkReady /\ ShippedExist

LEMMA StateReported ==
  ASSUME NEW object, NEW image, StateOf(object, image) = "ImageExists"
  PROVE  \E s \in object.states : s.image = image /\ s.state = "ImageExists"
  <1> DEFINE s == CHOOSE t \in object.states : t.image = image
  <1>1. \E t \in object.states : t.image = image
    BY DEF StateOf
  <1>2. s \in object.states /\ s.image = image
    BY <1>1
  <1>3. s.state = "ImageExists"
    BY <1>1 DEF StateOf
  <1> HIDE DEF s
  <1> QED BY <1>2, <1>3

(* Every image that is mapped is one of the ModuleImagesConfig, and the    *)
(* other way round.                                                        *)
LEMMA MappedImages ==
  ASSUME NEW spec, NEW versions
  PROVE  /\ \A k \in Mapped(spec, versions) :
               \E i \in ImagesOf(spec, versions) : i.image = spec[k].image
         /\ \A i \in ImagesOf(spec, versions) :
               \E k \in Mapped(spec, versions) : i.image = spec[k].image
  <1> DEFINE f(v) == First(spec, versions, spec[v].image)
             e(v) == [image |-> spec[v].image, kernel |-> f(v), sections |-> spec[f(v)].sections]
  <1>1. ImagesOf(spec, versions) = {e(v) : v \in Mapped(spec, versions)}
    BY DEF ImagesOf
  <1>2. \A v : e(v).image = spec[v].image
    OBVIOUS
  <1> HIDE DEF e
  <1> QED BY <1>1, <1>2

LEMMA ShippedListed ==
  ASSUME NEW spec, NEW versions
  PROVE  Listed(MappingsOf(spec, versions)) \subseteq Listed(ImagesOf(spec, versions))
  <1>1. \A m \in MappingsOf(spec, versions) : \E k \in Mapped(spec, versions) : m.image = spec[k].image
    <2> DEFINE e(k) == [literal |-> k, image |-> spec[k].image]
    <2>1. MappingsOf(spec, versions) = {e(k) : k \in Mapped(spec, versions)}
      BY DEF MappingsOf
    <2>2. \A k : e(k).image = spec[k].image
      OBVIOUS
    <2> HIDE DEF e
    <2> QED BY <2>1, <2>2
  <1>2. \A m \in MappingsOf(spec, versions) : \E i \in ImagesOf(spec, versions) : m.image = i.image
    BY <1>1, MappedImages
  <1> QED BY <1>2 DEF Listed

LEMMA ShipInit == Init => ShipInv
  <1> SUFFICES ASSUME Init PROVE ShipInv
    OBVIOUS
  <1>1. \A c \in Clusters : mic[c].states = {} /\ cachedMIC[c].states = {} /\ mw[c].phase = "none"
    BY DEF Init, NoMIC, NoWork
  <1>2. task.step = "idle"
    BY DEF Init, Idle
  <1> QED BY <1>1, <1>2 DEF ShipInv, StatesReported, WorkReady, ShippedExist

(* A step of something else: what was reported stays so.                   *)
LEMMA ShipFrame ==
  ASSUME Shape, ShipInv, UNCHANGED <<mw, early>>, StatesReported',
         \A c \in Clusters : reported[c] \subseteq reported'[c],
         task'.step # "work" \/ UNCHANGED task
  PROVE  ShipInv'
  <1>1. WorkReady'
    <2>1. CASE task'.step # "work"
      BY <2>1 DEF WorkReady
    <2>2. CASE UNCHANGED task /\ task.step = "work"
      <3>1. task.current \in Clusters
        BY <2>2 DEF Shape, TaskShape, AtCluster
      <3>2. Wanted(task.current)' = Wanted(task.current)
        BY <2>2 DEF Wanted
      <3> QED BY <2>2, <3>1, <3>2 DEF ShipInv, WorkReady
    <2> QED BY <2>1, <2>2
  <1>2. ShippedExist'
    BY DEF ShipInv, ShippedExist
  <1> QED BY <1>1, <1>2 DEF ShipInv

LEMMA SameReported ==
  ASSUME StatesReported, UNCHANGED <<mic, cachedMIC, reported>>
  PROVE  StatesReported' /\ \A c \in Clusters : reported[c] \subseteq reported'[c]
  BY DEF StatesReported

LEMMA ShipStep == Shape /\ ShipInv /\ [Next]_vars => ShipInv'
  <1> SUFFICES ASSUME Shape, ShipInv, [Next]_vars PROVE ShipInv'
    OBVIOUS
  <1>0. StatesReported /\ WorkReady /\ ShippedExist /\ TaskShape /\ MICShape /\ WorkShape
    BY DEF Shape, ShipInv
  <1>a. Idle.step = "idle"
    BY DEF Idle
  <1>1. CASE StartReconcile
    <2>1. UNCHANGED <<mic, cachedMIC, reported, mw, early>> /\ task'.step # "work"
      BY <1>1, StartEffect
    <2> QED BY <1>0, <2>1, ShipFrame, SameReported
  <1>2. ASSUME NEW c \in Clusters, setMicAsDesired(c) PROVE ShipInv'
    <2>1. UNCHANGED <<cachedMIC, reported, mw, early>> /\ task'.step # "work"
      BY <1>2, MicEffect
    <2>2. \A d \in Clusters : mic'[d].states = mic[d].states
      <3>1. CASE UNCHANGED mic
        BY <3>1
      <3>2. CASE mic' = [mic EXCEPT ![c] = Patched(c, Wanted(c))]
        BY <3>2, PatchEffect
      <3> QED BY <1>2, <3>1, <3>2, MicEffect
    <2>3. StatesReported'
      BY <1>0, <2>1, <2>2 DEF StatesReported
    <2> QED BY <2>1, <2>3, ShipFrame
  <1>3. CASE areImagesReady
    <2> DEFINE c == task.current
    <2>1. /\ UNCHANGED <<mic, cachedMIC, reported, mw, early>> /\ c \in Clusters
          /\ task'.spec = task.spec /\ task'.claims = task.claims
      BY <1>3, ReadyEffect DEF SameTask
    <2>2. CASE task'.step # "work"
      BY <1>0, <2>1, <2>2, ShipFrame, SameReported
    <2>3. CASE task'.step = "work"
      <3>1. /\ DoAllImagesExist(cachedMIC[c]) /\ task'.current = c
            /\ task'.hasty <=> ~(Listed(Wanted(c)) \subseteq Listed(cachedMIC[c].images))
        BY <1>3, <2>3, ReadyEffect
      <3>2. ASSUME NEW i \in cachedMIC[c].images PROVE i.image \in reported[c]
        <4>1. StateOf(cachedMIC[c], i.image) = "ImageExists"
          BY <3>1 DEF DoAllImagesExist
        <4>2. PICK s \in cachedMIC[c].states : s.image = i.image /\ s.state = "ImageExists"
          BY <4>1, StateReported
        <4> QED BY <1>0, <2>1, <4>2 DEF StatesReported
      <3>3. Listed(cachedMIC[c].images) \subseteq reported[c]
        BY <3>2 DEF Listed
      <3>4. Wanted(c)' = Wanted(c)
        BY <2>1, <3>1 DEF Wanted
      <3>5. WorkReady'
        BY <2>1, <3>1, <3>3, <3>4 DEF WorkReady, Wanted
      <3>6. ShippedExist' /\ StatesReported'
        BY <1>0, <2>1 DEF ShippedExist, StatesReported
      <3> QED BY <3>5, <3>6 DEF ShipInv
    <2> QED BY <2>2, <2>3
  <1>4. CASE setManifestWork
    <2> DEFINE c == task.current
               maps == MappingsOf(task.spec, KernelVersions(task.claims[c]))
    <2>1. /\ UNCHANGED <<mic, cachedMIC, reported>> /\ c \in Clusters /\ task.step = "work"
          /\ task'.step = "clusters"
          /\ early' = IF task.hasty THEN early \cup {c} ELSE early \ {c}
      BY <1>4, WorkEffect
    <2>2. PICK p \in {"live", "deleting"} :
             mw' = [mw EXCEPT ![c] = [phase |-> p, owner |-> task.uid, mappings |-> maps,
                                      conditions |-> mw[c].conditions]]
      BY <1>4, WorkEffect
    <2>3. Listed(maps) \subseteq Listed(Wanted(c))
      BY ShippedListed DEF Wanted
    <2> HIDE DEF maps
    <2>4. mw'[c].mappings = maps /\ \A d \in Clusters : d # c => mw'[d] = mw[d]
      BY <1>0, <2>1, <2>2 DEF WorkShape
    <2>5. ShippedExist'
      <3> SUFFICES ASSUME NEW d \in Clusters \ early', mw'[d].phase # "none"
                   PROVE  Listed(mw'[d].mappings) \subseteq reported[d]
        BY <2>1 DEF ShippedExist
      <3>1. CASE d = c
        <4>1. ~task.hasty
          BY <2>1, <3>1
        <4> QED BY <1>0, <2>1, <2>3, <2>4, <3>1, <4>1 DEF WorkReady
      <3>2. CASE d # c
        <4>1. d \notin early /\ mw'[d] = mw[d]
          BY <2>1, <2>4, <3>2
        <4> QED BY <1>0, <4>1 DEF ShippedExist
      <3> QED BY <3>1, <3>2
    <2>6. WorkReady' /\ StatesReported'
      BY <1>0, <2>1, SameReported DEF WorkReady
    <2> QED BY <2>5, <2>6 DEF ShipInv
  <1>5. CASE GarbageCollect
    <2>1. /\ UNCHANGED <<mic, cachedMIC, reported, early>> /\ task'.step # "work"
          /\ \A c \in Clusters : /\ mw'[c].phase # "none" => mw[c].phase # "none"
                                 /\ mw'[c].mappings = mw[c].mappings
      BY <1>5, CollectEffect
    <2>2. ShippedExist'
      BY <1>0, <2>1 DEF ShippedExist
    <2> QED BY <1>0, <2>1, <2>2, SameReported DEF ShipInv, WorkReady
  <1>6. CASE ManagedClusterModuleUpdateStatus
    <2>1. UNCHANGED <<mic, cachedMIC, reported, mw, early>> /\ task'.step # "work"
      BY <1>6, StatusEffect
    <2> QED BY <1>0, <2>1, ShipFrame, SameReported
  <1>7. CASE ClusterCallFails
    <2>1. UNCHANGED <<mic, cachedMIC, reported, mw, early>> /\ task'.step # "work"
      BY <1>7, FailEffect
    <2> QED BY <1>0, <2>1, ShipFrame, SameReported
  <1>8. CASE CallFails
    <2>1. UNCHANGED <<mic, cachedMIC, reported, mw, early>> /\ task'.step # "work"
      BY <1>8, CallFailsEffect
    <2> QED BY <1>0, <2>1, ShipFrame, SameReported
  <1>9. ASSUME NEW c \in Clusters, Pipeline(c) PROVE ShipInv'
    <2>1. /\ UNCHANGED <<cachedMIC, mw, task, early>>
          /\ \A d \in Clusters : /\ d # c => mic'[d] = mic[d]
                                 /\ reported[d] \subseteq reported'[d]
          /\ \A s \in mic'[c].states : s \in mic[c].states \/ (s.state = "ImageExists" => s.image \in reported'[c])
      BY <1>9, PipelineEffect
    <2>2. StatesReported'
      <3> SUFFICES ASSUME NEW d \in Clusters, NEW s \in mic'[d].states \cup cachedMIC[d].states,
                          s.state = "ImageExists"
                   PROVE  s.image \in reported'[d]
        BY <2>1 DEF StatesReported
      <3>1. CASE s \in mic[d].states \cup cachedMIC[d].states
        BY <1>0, <2>1, <3>1 DEF StatesReported
      <3>2. CASE s \notin mic[d].states \cup cachedMIC[d].states
        BY <2>1, <3>2
      <3> QED BY <3>1, <3>2
    <2> QED BY <2>1, <2>2, ShipFrame
  <1>10. ASSUME NEW c \in Clusters, DeliverMIC(c) PROVE ShipInv'
    <2>1. /\ UNCHANGED <<mic, reported, mw, task, early>>
          /\ cachedMIC'[c] = mic[c] /\ \A d \in Clusters : d # c => cachedMIC'[d] = cachedMIC[d]
      BY <1>10, DeliverEffect
    <2>2. StatesReported'
      BY <1>0, <2>1 DEF StatesReported
    <2> QED BY <2>1, <2>2, ShipFrame
  <1>11. ASSUME NEW c \in Clusters, CollectMIC(c) PROVE ShipInv'
    <2>1. /\ UNCHANGED <<cachedMIC, reported, mw, task, early>>
          /\ mic'[c] = NoMIC /\ \A d \in Clusters : d # c => mic'[d] = mic[d]
      BY <1>11, CollectMICEffect
    <2>2. NoMIC.states = {}
      BY DEF NoMIC
    <2>3. StatesReported'
      BY <1>0, <2>1, <2>2 DEF StatesReported
    <2> QED BY <2>1, <2>3, ShipFrame
  <1>12. ASSUME NEW c \in Clusters, CollectWork(c) \/ WorkGone(c) \/ WorkReports(c) PROVE ShipInv'
    <2>1. /\ UNCHANGED <<mic, cachedMIC, reported, task, early>>
          /\ \A d \in Clusters : d # c => mw'[d] = mw[d]
          /\ \/ mw'[c].phase = "none"
             \/ mw[c].phase # "none" /\ mw'[c].mappings = mw[c].mappings
      BY <1>12, AgentEffect
    <2>2. ShippedExist'
      BY <1>0, <2>1 DEF ShippedExist
    <2>3. WorkReady'
      BY <1>0, <2>1 DEF WorkReady, Wanted
    <2> QED BY <1>0, <2>1, <2>2, <2>3, SameReported DEF ShipInv
  <1>13. ASSUME NEW c \in Clusters,
                ReportClaim(c) \/ RelabelCluster(c) \/ ReconcileClaim(c) \/ NodeChanges(c) \/ DeleteClaim(c)
         PROVE  ShipInv'
    <2>1. UNCHANGED <<mic, cachedMIC, reported, mw, task, early>>
      BY <1>13, HearEffect, SpokeEffect
    <2> QED BY <1>0, <2>1, ShipFrame, SameReported
  <1>14. CASE CreateMCM \/ EditMCM \/ TriggerRebuild \/ DeleteMCM
    <2>1. UNCHANGED <<mic, cachedMIC, reported, mw, task, early>>
      BY <1>14, UserEffect
    <2> QED BY <1>0, <2>1, ShipFrame, SameReported
  <1>15. CASE UNCHANGED vars
    <2>1. UNCHANGED <<mic, cachedMIC, reported, mw, task, early>>
      BY <1>15 DEF vars, images
    <2> QED BY <1>0, <2>1, ShipFrame, SameReported
  <1> QED
    BY <1>1, <1>2, <1>3, <1>4, <1>5, <1>6, <1>7, <1>8, <1>9, <1>10, <1>11, <1>12, <1>13, <1>14, <1>15
    DEF Next, Work, Agents, Environment

(* No ManifestWork is ahead of its images: everything it maps was reported *)
(* by the image pipeline for that cluster, whatever changed between        *)
(* setMicAsDesired, areImagesReady and the patch, except in a cluster      *)
(* where areImagesReady looked at a cached ModuleImagesConfig from before  *)
(* the Reconcile's own patch.                                              *)
THEOREM NothingShippedEarly == Spec => []ShippedExist
  <1>1. ShipInv => ShippedExist
    BY DEF ShipInv
  <1> QED BY <1>1, ShapeInit, ShapeStep, ShipInit, ShipStep, PTL DEF Spec

-----------------------------------------------------------------------------
(* Right at rest                                                           *)

(* Owners are ManagedClusterModules of now or earlier, and the cache is    *)
(* never ahead.                                                            *)
OwnersPast ==
    /\ task.uid <= mcm.uid
    /\ \A c \in Clusters :
          /\ mic[c].owner <= mcm.uid /\ cachedMIC[c].owner <= mcm.uid
          /\ mic[c].exists => cachedMIC[c].owner <= mic[c].owner
          /\ task.step # "idle" => mic[c].owner <= task.uid /\ cachedMIC[c].owner <= task.uid

GoneEmpty ==
    \A c \in Clusters : /\ ~mic[c].exists => mic[c].images = {} /\ mic[c].owner = 0
                        /\ ~cachedMIC[c].exists => cachedMIC[c].images = {} /\ cachedMIC[c].owner = 0

(* At the check a ModuleImagesConfig lists other images than the wanted    *)
(* ones only if the copy is behind, so that its delivery will be an event. *)
CopyTold ==
    ~queue /\ task.step = "ready" /\ mic[task.current].exists =>
        \/ mic[task.current].images = Wanted(task.current)
        \/ cachedMIC[task.current].exists /\ cachedMIC[task.current].images # mic[task.current].images

CopyInv == OwnersPast /\ GoneEmpty /\ CopyTold

LEMMA CopyInit == Init => CopyInv
  <1> SUFFICES ASSUME Init PROVE CopyInv
    OBVIOUS
  <1>1. \A c \in Clusters : /\ mic[c].images = {} /\ mic[c].owner = 0 /\ ~mic[c].exists
                            /\ cachedMIC[c].images = {} /\ cachedMIC[c].owner = 0
    BY DEF Init, NoMIC
  <1>2. task.step = "idle" /\ task.uid = 0 /\ mcm.uid = 0
    BY DEF Init, Idle, NoMCM
  <1> QED BY <1>1, <1>2 DEF CopyInv, OwnersPast, GoneEmpty, CopyTold

Owners ==
    /\ task.uid \in Nat /\ mcm.uid \in Nat
    /\ \A c \in Clusters : mic[c].owner \in Nat /\ cachedMIC[c].owner \in Nat

LEMMA ShapeOwners ==
  ASSUME Shape
  PROVE  Owners
  <1>1. task.uid \in Nat /\ mcm.uid \in Nat
    BY DEF Shape, TaskShape, MCMShape
  <1>2. \A c \in Clusters : mic[c].owner \in Nat /\ cachedMIC[c].owner \in Nat
    BY DEF Shape, MICShape, MICs, IsMIC
  <1> QED BY <1>1, <1>2 DEF Owners

(* The patch makes the Reconcile's ManagedClusterModule the owner.         *)
LEMMA PatchOwner ==
  ASSUME Shape, CopyInv, NEW c \in Clusters, setMicAsDesired(c), task'.step = "ready"
  PROVE  /\ mic'[c].exists /\ mic'[c].owner = task.uid /\ task'.current = c
         /\ \/ mic'[c].images = Wanted(c)
            \/ cachedMIC[c].exists /\ cachedMIC[c].images # mic'[c].images
         /\ \A d \in Clusters : d # c => mic'[d] = mic[d]
  <1>1. /\ cachedMIC[c].exists = mic[c].exists /\ task'.current = c /\ task.step = "clusters"
        /\ mic' = [mic EXCEPT ![c] = Patched(c, Wanted(c))]
    BY MicEffect
  <1>2. /\ mic'[c].exists /\ \A d \in Clusters : d # c => mic'[d] = mic[d]
        /\ mic'[c].owner = IF task.uid = cachedMIC[c].owner THEN mic[c].owner ELSE task.uid
        /\ mic'[c].images = IF Wanted(c) = cachedMIC[c].images THEN mic[c].images ELSE Wanted(c)
    BY <1>1, PatchEffect
  <1>3. mic'[c].owner = task.uid
    <2>1. /\ mic[c].owner <= task.uid /\ (mic[c].exists => cachedMIC[c].owner <= mic[c].owner)
          /\ ~mic[c].exists => mic[c].owner = 0 /\ cachedMIC[c].owner = 0
      BY <1>1 DEF CopyInv, OwnersPast, GoneEmpty
    <2> QED BY <1>2, <2>1, ShapeOwners DEF Owners
  <1>4. \/ mic'[c].images = Wanted(c)
        \/ cachedMIC[c].exists /\ cachedMIC[c].images # mic'[c].images
    <2>1. ~cachedMIC[c].exists => cachedMIC[c].images = {} /\ mic[c].images = {}
      BY <1>1 DEF CopyInv, GoneEmpty
    <2> QED BY <1>2, <2>1
  <1> QED BY <1>1, <1>2, <1>3, <1>4

LEMMA CopyFrame ==
  ASSUME Shape, CopyInv, UNCHANGED <<mic, cachedMIC>>, mcm'.uid \in Nat, mcm'.uid >= mcm.uid,
         \/ UNCHANGED task /\ (queue => queue')
         \/ task'.uid = task.uid /\ task.step # "idle" /\ task'.step # "ready"
         \/ task'.step = "idle" /\ task'.uid = 0
  PROVE  CopyInv'
  <1>1. GoneEmpty'
    BY DEF CopyInv, GoneEmpty
  <1>2. OwnersPast'
    BY ShapeOwners DEF CopyInv, OwnersPast, Owners
  <1>3. CopyTold'
    <2>1. CASE UNCHANGED task /\ (queue => queue')
      BY <2>1 DEF CopyInv, CopyTold, Wanted
    <2>2. CASE task'.step # "ready"
      BY <2>2 DEF CopyTold
    <2> QED BY <2>1, <2>2
  <1> QED BY <1>1, <1>2, <1>3 DEF CopyInv

LEMMA CopyStep == Shape /\ CopyInv /\ [Next]_vars => CopyInv'
  <1> SUFFICES ASSUME Shape, CopyInv, [Next]_vars PROVE CopyInv'
    OBVIOUS
  <1>0. OwnersPast /\ GoneEmpty /\ CopyTold /\ Owners /\ mcm.uid >= mcm.uid
    BY ShapeOwners DEF CopyInv, Owners
  <1>a. Idle.uid = 0 /\ Idle.step = "idle" /\ NoMIC.owner = 0 /\ NoMIC.images = {} /\ ~NoMIC.exists
    BY DEF Idle, NoMIC
  <1>1. CASE StartReconcile
    <2>1. UNCHANGED <<mcm, mic, cachedMIC>>
      BY <1>1, StartEffect
    <2>2. CASE ~mcm.exists
      BY <1>0, <1>a, <1>1, <2>1, <2>2, StartEffect, CopyFrame DEF Owners
    <2>3. CASE mcm.exists
      <3>1. task'.step = "clusters" /\ task'.uid = mcm.uid
        BY <1>1, <2>3, StartEffect
      <3> QED BY <1>0, <2>1, <3>1 DEF CopyInv, OwnersPast, GoneEmpty, CopyTold
    <2> QED BY <2>2, <2>3
  <1>2. ASSUME NEW c \in Clusters, setMicAsDesired(c) PROVE CopyInv'
    <2>1. UNCHANGED <<mcm, cachedMIC, queue>> /\ task'.uid = task.uid /\ task'.spec = task.spec
          /\ task'.claims = task.claims /\ task.step = "clusters"
      BY <1>2, MicEffect DEF SameTask
    <2>2. CASE UNCHANGED mic /\ task'.step = "clusters"
      BY <1>0, <2>1, <2>2, CopyFrame DEF Owners
    <2>3. CASE task'.step = "ready"
      <3>1. /\ mic'[c].exists /\ mic'[c].owner = task.uid /\ task'.current = c
            /\ \/ mic'[c].images = Wanted(c)
               \/ cachedMIC[c].exists /\ cachedMIC[c].images # mic'[c].images
            /\ \A d \in Clusters : d # c => mic'[d] = mic[d]
        BY <1>2, <2>3, PatchOwner
      <3>2. OwnersPast'
        BY <1>0, <2>1, <3>1 DEF OwnersPast, Owners
      <3>3. GoneEmpty'
        BY <1>0, <2>1, <3>1 DEF GoneEmpty
      <3>4. CopyTold'
        BY <2>1, <3>1 DEF CopyTold, Wanted
      <3> QED BY <3>2, <3>3, <3>4 DEF CopyInv
    <2> QED BY <1>2, <2>2, <2>3, MicEffect
  <1>3. CASE areImagesReady
    BY <1>0, <1>3, ReadyEffect, CopyFrame DEF Owners, SameTask
  <1>4. CASE setManifestWork
    BY <1>0, <1>4, WorkEffect, CopyFrame DEF Owners, SameTask
  <1>5. CASE GarbageCollect
    BY <1>0, <1>a, <1>5, CollectEffect, CopyFrame DEF Owners, SameTask
  <1>6. CASE ManagedClusterModuleUpdateStatus
    BY <1>0, <1>a, <1>6, StatusEffect, CopyFrame DEF Owners
  <1>7. CASE ClusterCallFails
    BY <1>0, <1>7, FailEffect, CopyFrame DEF Owners, SameTask
  <1>8. CASE CallFails
    BY <1>0, <1>a, <1>8, CallFailsEffect, CopyFrame DEF Owners
  <1>9. ASSUME NEW c \in Clusters, Pipeline(c) PROVE CopyInv'
    <2>1. /\ UNCHANGED <<mcm, cachedMIC, task, queue>>
          /\ \A d \in Clusters : /\ mic'[d].exists = mic[d].exists /\ mic'[d].owner = mic[d].owner
                                 /\ mic'[d].images = mic[d].images
      BY <1>9, PipelineEffect
    <2>2. OwnersPast' /\ GoneEmpty'
      BY <1>0, <2>1 DEF OwnersPast, GoneEmpty
    <2>3. task.step = "ready" => task.current \in Clusters
      BY DEF Shape, AtCluster, TaskShape
    <2>4. CopyTold'
      BY <1>0, <2>1, <2>3 DEF CopyTold, Wanted
    <2> QED BY <2>2, <2>4 DEF CopyInv
  <1>10. ASSUME NEW c \in Clusters, DeliverMIC(c) PROVE CopyInv'
    <2>1. /\ UNCHANGED <<mcm, mic, task>> /\ (queue => queue') /\ (cachedMIC[c].exists /\ mic[c].exists => queue')
          /\ cachedMIC'[c] = mic[c] /\ \A d \in Clusters : d # c => cachedMIC'[d] = cachedMIC[d]
      BY <1>10, DeliverEffect
    <2>2. OwnersPast' /\ GoneEmpty'
      BY <1>0, <2>1 DEF OwnersPast, GoneEmpty, Owners
    <2>3. task.step = "ready" => task.current \in Clusters
      BY DEF Shape, AtCluster, TaskShape
    <2>4. CopyTold'
      BY <1>0, <2>1, <2>3 DEF CopyTold, Wanted
    <2> QED BY <2>2, <2>4 DEF CopyInv
  <1>11. ASSUME NEW c \in Clusters, CollectMIC(c) PROVE CopyInv'
    <2>1. /\ UNCHANGED <<mcm, cachedMIC, task, queue>>
          /\ mic'[c] = NoMIC /\ \A d \in Clusters : d # c => mic'[d] = mic[d]
      BY <1>11, CollectMICEffect
    <2>2. OwnersPast' /\ GoneEmpty'
      BY <1>0, <1>a, <2>1 DEF OwnersPast, GoneEmpty, Owners
    <2>3. task.step = "ready" => task.current \in Clusters
      BY DEF Shape, AtCluster, TaskShape
    <2>4. CopyTold'
      BY <1>0, <1>a, <2>1, <2>3 DEF CopyTold, Wanted
    <2> QED BY <2>2, <2>4 DEF CopyInv
  <1>12. ASSUME NEW c \in Clusters, CollectWork(c) \/ WorkGone(c) \/ WorkReports(c) PROVE CopyInv'
    BY <1>0, <1>12, AgentEffect, CopyFrame DEF Owners
  <1>13. ASSUME NEW c \in Clusters,
                ReportClaim(c) \/ RelabelCluster(c) \/ ReconcileClaim(c) \/ NodeChanges(c) \/ DeleteClaim(c)
         PROVE  CopyInv'
    BY <1>0, <1>13, HearEffect, SpokeEffect, CopyFrame DEF Owners
  <1>14. CASE CreateMCM \/ EditMCM \/ TriggerRebuild \/ DeleteMCM
    <2>1. UNCHANGED <<mic, cachedMIC, task>> /\ mcm'.uid \in Nat /\ mcm'.uid >= mcm.uid /\ queue'
      BY <1>14, UserEffect DEF MCMShape
    <2> QED BY <2>1, CopyFrame
  <1>15. CASE UNCHANGED vars
    BY <1>0, <1>15, CopyFrame DEF vars, images, Owners
  <1> QED
    BY <1>1, <1>2, <1>3, <1>4, <1>5, <1>6, <1>7, <1>8, <1>9, <1>10, <1>11, <1>12, <1>13, <1>14, <1>15
    DEF Next, Work, Agents, Environment

(* Unless the ManagedClusterModule is queued, a Reconcile works with what  *)
(* there is: this one, its selection...                                    *)
SelectionCurrent ==
    mcm.exists /\ ~queue /\ task.step # "idle" =>
        task.uid = mcm.uid /\ DOMAIN task.claims = SelectedManagedClusters

TodoSelected ==
    /\ task.todo \subseteq DOMAIN task.claims
    /\ task.step = "updateStatus" => task.todo = {}

(* ...its claims, and its spec until the first ManifestWork.               *)
ClaimsCurrent ==
    mcm.exists /\ ~queue /\ task.step # "idle" =>
        \A c \in DOMAIN task.claims : cluster[c].claim # None => task.claims[c] = cluster[c].claim

SpecCurrent ==
    \A c \in Clusters :
        mcm.exists /\ ~queue /\ task.step # "idle" /\ DOMAIN task.claims = {c} /\ c \in task.todo =>
            task.spec = mcm.spec

(* The ManifestWorks of clusters that are not selected are gone, once      *)
(* GarbageCollect has run.                                                 *)
OthersGone ==
    mcm.exists /\ ~queue /\ task.step \in {"idle", "updateStatus"} =>
        \A c \in Clusters : mw[c].phase = "live" => Selected(c)

(* From the patch on, the ModuleImagesConfig of a cluster stays the one of *)
(* this ManagedClusterModule.                                              *)
AtMIC ==
    mcm.exists /\ ~queue /\ task.step \in {"ready", "work"} =>
        /\ mic[task.current].exists /\ mic[task.current].owner = mcm.uid
        /\ task.step = "work" => cachedMIC[task.current].exists

(* The turn of the only selected cluster is over and left no error.        *)
Done(c) ==
    /\ mcm.exists /\ ~queue /\ SelectedManagedClusters = {c} /\ c \notin lost /\ cluster[c].claim # None
    /\ task.step = "idle" \/ c \notin task.todo

Seen(c) == mic[c].exists /\ mic[c].owner = mcm.uid /\ cachedMIC[c].exists

(* The copy says no, or is behind.                                         *)
Denied(c) ==
    \/ \E k \in Mapped(mcm.spec, KernelVersions(cluster[c].claim)) :
          StateOf(cachedMIC[c], mcm.spec[k].image) # "ImageExists"
    \/ cachedMIC[c].images # mic[c].images

Settled(c) == Right(c) \/ mw[c].phase = "deleting" \/ Denied(c)

(* Its ManifestWork is right unless the copy denied it.                    *)
OnlyRight == \A c \in Clusters : Done(c) => Seen(c) /\ Settled(c)

RestInv == /\ SelectionCurrent /\ TodoSelected /\ ClaimsCurrent /\ SpecCurrent /\ OthersGone
           /\ AtMIC /\ OnlyRight

(* A Reconcile that is current and works on the only selected cluster.     *)
LEMMA OnlyOne ==
  ASSUME Shape, RestInv, mcm.exists, ~queue, task.step # "idle",
         NEW c \in Clusters, SelectedManagedClusters = {c}, NEW d \in task.todo
  PROVE  /\ d = c /\ DOMAIN task.claims = {c} /\ task.uid = mcm.uid /\ task.spec = mcm.spec
         /\ cluster[c].claim # None => task.claims[c] = cluster[c].claim
  <1>1. DOMAIN task.claims = {c} /\ task.uid = mcm.uid
    BY DEF RestInv, SelectionCurrent
  <1>2. d = c
    BY <1>1 DEF RestInv, TodoSelected
  <1>3. task.spec = mcm.spec
    BY <1>1, <1>2 DEF RestInv, SpecCurrent
  <1>4. cluster[c].claim # None => task.claims[c] = cluster[c].claim
    BY <1>1 DEF RestInv, ClaimsCurrent
  <1> QED BY <1>1, <1>2, <1>3, <1>4

(* What the Reconcile of now goes by does not change while it steps.       *)
Steady == /\ UNCHANGED <<cluster, mcm>> /\ SameTask
          /\ task.step # "idle" /\ (queue => queue')

LEMMA SteadySelection ==
  ASSUME UNCHANGED cluster, mcm'.exists = mcm.exists, mcm'.everything = mcm.everything
  PROVE  /\ \A c \in Clusters : Selected(c)' <=> Selected(c)
         /\ SelectedManagedClusters' = SelectedManagedClusters
  BY DEF Selected, SelectedManagedClusters

LEMMA SteadyFrame ==
  ASSUME Steady, RestInv, task'.todo \subseteq task.todo,
         task'.step = "updateStatus" => task'.todo = {}
  PROVE  SelectionCurrent' /\ TodoSelected' /\ ClaimsCurrent'
  <1>1. SelectedManagedClusters' = SelectedManagedClusters
    BY SteadySelection DEF Steady
  <1>2. SelectionCurrent'
    BY <1>1 DEF Steady, SameTask, RestInv, SelectionCurrent
  <1>3. TodoSelected'
    BY DEF Steady, SameTask, RestInv, TodoSelected
  <1>4. ClaimsCurrent'
    BY DEF Steady, SameTask, RestInv, ClaimsCurrent
  <1> QED BY <1>2, <1>3, <1>4

(* A cluster's turn ends: either its claim, its spec or its images are not *)
(* ready, or its ManifestWork is right.                                    *)
LEMMA TurnOver ==
  ASSUME Shape, RestInv, Steady, NEW d \in task.todo, d \in Clusters,
         task'.todo = task.todo \ {d}, task'.step = "clusters",
         (/\ mcm.exists /\ ~queue /\ SelectedManagedClusters = {d} /\ d \notin lost' /\ cluster[d].claim # None
          /\ task.uid = mcm.uid /\ task.spec = mcm.spec /\ task.claims[d] = cluster[d].claim)
             => (Seen(d) /\ Settled(d))'
  PROVE  RestInv'
  <1>1. SelectionCurrent' /\ TodoSelected' /\ ClaimsCurrent'
    BY SteadyFrame
  <1>2. OthersGone' /\ AtMIC'
    BY DEF OthersGone, AtMIC
  <1>3. SpecCurrent'
    BY DEF SpecCurrent, Steady, SameTask, RestInv, TodoSelected
  <1>4. OnlyRight'
    <2> SUFFICES ASSUME NEW c \in Clusters, Done(c)' PROVE (Seen(c) /\ Settled(c))'
      BY DEF OnlyRight
    <2>1. /\ mcm.exists /\ ~queue /\ SelectedManagedClusters = {c} /\ c \notin lost' /\ cluster[c].claim # None
          /\ task.step # "idle"
      BY SteadySelection DEF Done, Steady
    <2>2. /\ d = c /\ task.uid = mcm.uid /\ task.spec = mcm.spec
          /\ task.claims[c] = cluster[c].claim
      BY <2>1, OnlyOne
    <2> QED BY <2>1, <2>2
  <1> QED BY <1>1, <1>2, <1>3, <1>4 DEF RestInv

(* Nobody's turn is over while the Reconcile is at the only cluster.       *)
LEMMA NotYet ==
  ASSUME Shape, RestInv, Steady, task'.todo = task.todo, task'.step # "idle", NEW d \in task.todo
  PROVE  OnlyRight'
  <1> SUFFICES ASSUME NEW c \in Clusters, Done(c)' PROVE FALSE
    BY DEF OnlyRight
  <1>1. /\ mcm.exists /\ ~queue /\ SelectedManagedClusters = {c} /\ task.step # "idle" /\ c \notin task.todo
    BY SteadySelection DEF Done, Steady
  <1> QED BY <1>1, OnlyOne

(* The verdict does not depend on anything else.                           *)
LEMMA SameVerdict ==
  ASSUME NEW c \in Clusters, Seen(c) /\ Settled(c),
         mcm'.exists = mcm.exists, mcm'.uid = mcm.uid, mcm'.spec = mcm.spec,
         cluster'[c].claim = cluster[c].claim, mw'[c] = mw[c], cachedMIC'[c] = cachedMIC[c],
         mic'[c].exists = mic[c].exists, mic'[c].owner = mic[c].owner, mic'[c].images = mic[c].images
  PROVE  (Seen(c) /\ Settled(c))'
  <1>1. Seen(c)'
    BY DEF Seen
  <1>2. Right(c)' <=> Right(c)
    BY DEF Right
  <1>3. Denied(c)' <=> Denied(c)
    BY DEF Denied, StateOf
  <1> QED BY <1>1, <1>2, <1>3 DEF Settled

(* A step that leaves what the conjuncts speak of alone.                   *)
LEMMA RestFrame ==
  ASSUME RestInv, UNCHANGED <<cluster, mcm, mw, queue, task, lost>>,
         \A c \in Clusters : Done(c) => (Seen(c) /\ Settled(c))', AtMIC'
  PROVE  RestInv'
  <1>1. SelectedManagedClusters' = SelectedManagedClusters /\ \A c \in Clusters : Selected(c)' <=> Selected(c)
    BY SteadySelection
  <1>2. SelectionCurrent' /\ TodoSelected' /\ ClaimsCurrent' /\ SpecCurrent'
    BY <1>1 DEF RestInv, SelectionCurrent, TodoSelected, ClaimsCurrent, SpecCurrent
  <1>3. OthersGone'
    BY <1>1 DEF RestInv, OthersGone
  <1>4. OnlyRight'
    BY <1>1 DEF OnlyRight, Done
  <1> QED BY <1>2, <1>3, <1>4 DEF RestInv

(* An event asks for another Reconcile.                                    *)
LEMMA QueuedRest ==
  ASSUME RestInv, queue' = TRUE, UNCHANGED task \/ task' = Idle
  PROVE  RestInv'
  <1>1. TodoSelected'
    <2>1. Idle.todo = {} /\ Idle.step = "idle"
      BY DEF Idle
    <2> QED BY <2>1 DEF RestInv, TodoSelected
  <1> QED BY <1>1 DEF RestInv, SelectionCurrent, ClaimsCurrent, SpecCurrent, OthersGone, AtMIC, OnlyRight, Done

LEMMA RestInit == Init => RestInv
  <1> SUFFICES ASSUME Init PROVE RestInv
    OBVIOUS
  <1>1. task = Idle /\ mcm = NoMCM
    BY DEF Init
  <1>2. ~mcm.exists /\ task.todo = {} /\ task.step = "idle"
    BY <1>1 DEF NoMCM, Idle
  <1> QED BY <1>2 DEF RestInv, SelectionCurrent, TodoSelected, ClaimsCurrent, SpecCurrent, OthersGone,
                      AtMIC, OnlyRight, Done

ClusterShape ==
    /\ cluster = [c \in Clusters |-> cluster[c]]
    /\ \A c \in Clusters : cluster[c] \in [labelled: {cluster[c].labelled}, claim: {cluster[c].claim}]

LEMMA ClusterInit == Init => ClusterShape
  BY DEF Init, ClusterShape

LEMMA ReportEffect ==
  ASSUME ClusterShape, NEW d \in Clusters, ReportClaim(d)
  PROVE  /\ ClusterShape' /\ UNCHANGED <<mcm, mic, cachedMIC, mw, task, lost>>
         /\ queue' = (queue \/ (claim[d] # None /\ Selected(d)))
         /\ \A c \in Clusters : /\ cluster'[c].labelled = cluster[c].labelled
                                /\ c # d => cluster'[c] = cluster[c]
         /\ cluster'[d].claim = claim[d]
  <1>1. cluster' = [cluster EXCEPT ![d] = [cluster[d] EXCEPT !.claim = claim[d]]]
    BY DEF ReportClaim
  <1>2. /\ cluster' = [c \in Clusters |-> cluster'[c]]
        /\ \A c \in Clusters : c # d => cluster'[c] = cluster[c]
        /\ cluster'[d] = [cluster[d] EXCEPT !.claim = claim[d]]
    BY <1>1 DEF ClusterShape
  <1>3. /\ cluster'[d] \in [labelled: {cluster'[d].labelled}, claim: {cluster'[d].claim}]
        /\ cluster'[d].labelled = cluster[d].labelled /\ cluster'[d].claim = claim[d]
    BY <1>2 DEF ClusterShape
  <1>4. ClusterShape'
    BY <1>2, <1>3 DEF ClusterShape
  <1> QED BY <1>2, <1>3, <1>4 DEF ReportClaim, images

LEMMA ClusterStep == Shape /\ ClusterShape /\ [Next]_vars => ClusterShape'
  <1> SUFFICES ASSUME Shape, ClusterShape, [Next]_vars PROVE ClusterShape'
    OBVIOUS
  <1>1. CASE UNCHANGED cluster
    BY <1>1 DEF ClusterShape
  <1>2. ASSUME NEW d \in Clusters, ReportClaim(d) PROVE ClusterShape'
    BY <1>2, ReportEffect
  <1>3. ASSUME NEW d \in Clusters, RelabelCluster(d) PROVE ClusterShape'
    <2>1. cluster' = [cluster EXCEPT ![d] = [cluster[d] EXCEPT !.labelled = ~cluster[d].labelled]]
      BY <1>3 DEF RelabelCluster
    <2>2. /\ cluster' = [c \in Clusters |-> cluster'[c]]
          /\ \A c \in Clusters : c # d => cluster'[c] = cluster[c]
          /\ cluster'[d] = [cluster[d] EXCEPT !.labelled = ~cluster[d].labelled]
      BY <2>1 DEF ClusterShape
    <2>3. cluster'[d] \in [labelled: {cluster'[d].labelled}, claim: {cluster'[d].claim}]
      BY <2>2 DEF ClusterShape
    <2> QED BY <2>2, <2>3 DEF ClusterShape
  <1>4. (\A d \in Clusters : ~ReportClaim(d) /\ ~RelabelCluster(d)) => UNCHANGED cluster
    <2>1. ASSUME NEW c \in Clusters,
                 setMicAsDesired(c) \/ Pipeline(c) \/ DeliverMIC(c) \/ CollectMIC(c) \/ CollectWork(c) \/ WorkGone(c) \/ WorkReports(c)
                     \/ ReconcileClaim(c) \/ NodeChanges(c) \/ DeleteClaim(c)
          PROVE  UNCHANGED cluster
      BY <2>1, MicEffect, PipelineEffect, DeliverEffect, CollectMICEffect, AgentEffect, SpokeEffect
    <2>2. CASE StartReconcile \/ areImagesReady \/ setManifestWork \/ GarbageCollect
               \/ ManagedClusterModuleUpdateStatus \/ ClusterCallFails \/ CallFails
               \/ CreateMCM \/ EditMCM \/ TriggerRebuild \/ DeleteMCM
      BY <2>2, StartEffect, ReadyEffect, WorkEffect, CollectEffect, StatusEffect, FailEffect,
         CallFailsEffect, UserEffect
    <2>3. CASE UNCHANGED vars
      BY <2>3 DEF vars
    <2> QED BY <2>1, <2>2, <2>3 DEF Next, Work, Agents, Environment
  <1> QED BY <1>1, <1>2, <1>3, <1>4

LEMMA RestStep == Shape /\ ClusterShape /\ CopyInv /\ RestInv /\ [Next]_vars => RestInv'
  <1> SUFFICES ASSUME Shape, ClusterShape, CopyInv, RestInv, [Next]_vars PROVE RestInv'
    OBVIOUS
  <1>0. /\ TaskShape /\ MCMShape /\ MICShape /\ WorkShape /\ AtCluster /\ queue \in BOOLEAN
        /\ mcm.exists \in BOOLEAN
    BY DEF Shape, MCMShape
  <1>a. /\ SelectionCurrent /\ AtMIC /\ OnlyRight
        /\ task.step \in {"ready", "work"} => task.current \in Clusters
    BY <1>0 DEF RestInv, TaskShape, AtCluster
  <1>1. CASE StartReconcile
    <2>1. UNCHANGED <<cluster, mcm, mic, mw, lost>>
      BY <1>1, StartEffect
    <2>2. SelectedManagedClusters' = SelectedManagedClusters
      BY <2>1, SteadySelection
    <2>3. CASE ~mcm.exists
      <3>1. task'.todo = {} /\ task'.step = "idle"
        BY <1>1, <2>3, StartEffect DEF Idle
      <3> QED BY <2>1, <2>3, <3>1 DEF RestInv, SelectionCurrent, TodoSelected, ClaimsCurrent, SpecCurrent,
                                      OthersGone, AtMIC, OnlyRight, Done
    <2>4. CASE mcm.exists
      <3>1. /\ task'.step = "clusters" /\ task'.uid = mcm.uid /\ task'.spec = mcm.spec
            /\ task'.claims = [c \in SelectedManagedClusters |-> cluster[c].claim]
            /\ task'.todo = SelectedManagedClusters
        BY <1>1, <2>4, StartEffect
      <3>2. DOMAIN task'.claims = SelectedManagedClusters
        BY <3>1
      <3>3. SelectionCurrent' /\ TodoSelected' /\ SpecCurrent' /\ OthersGone' /\ AtMIC'
        BY <2>1, <2>2, <3>1, <3>2 DEF SelectionCurrent, TodoSelected, SpecCurrent, OthersGone, AtMIC
      <3>4. ClaimsCurrent'
        BY <2>1, <2>2, <3>1, <3>2 DEF ClaimsCurrent
      <3>5. OnlyRight'
        BY <2>1, <2>2, <3>1 DEF OnlyRight, Done
      <3> QED BY <3>3, <3>4, <3>5 DEF RestInv
    <2> QED BY <2>3, <2>4
  <1>2. ASSUME NEW d \in Clusters, setMicAsDesired(d) PROVE RestInv'
    <2>1. /\ Steady /\ UNCHANGED <<mw, queue, cachedMIC>> /\ task'.spec = task.spec /\ d \in task.todo
      BY <1>0, <1>2, MicEffect DEF Steady
    <2>2. CASE UNCHANGED mic /\ task'.step = "clusters" /\ task'.todo = task.todo \ {d}
      <3>1. (task.claims[d] = None /\ lost' = lost \ {d}) \/ lost' = lost \cup {d}
        BY <1>2, <2>2, MicEffect
      <3>2. ~(d \notin lost' /\ cluster[d].claim # None /\ task.claims[d] = cluster[d].claim)
        BY <3>1
      <3> QED BY <2>1, <2>2, <3>2, TurnOver
    <2>3. CASE task'.step = "ready" /\ task'.todo = task.todo
      <3>1. SelectionCurrent' /\ TodoSelected' /\ ClaimsCurrent'
        BY <2>1, <2>3, SteadyFrame
      <3>2. OthersGone'
        BY <2>3 DEF OthersGone
      <3>3. SpecCurrent'
        BY <2>1, <2>3 DEF Steady, SameTask, RestInv, SpecCurrent
      <3>4. OnlyRight'
        BY <2>1, <2>3, NotYet
      <3>5. AtMIC'
        <4>1. mic'[d].exists /\ mic'[d].owner = task.uid /\ task'.current = d
          BY <1>2, <2>3, PatchOwner
        <4>2. mcm.exists /\ ~queue => task.uid = mcm.uid
          BY <1>a, <2>1 DEF SelectionCurrent, Steady
        <4> QED BY <2>1, <2>3, <4>1, <4>2 DEF AtMIC, Steady
      <3> QED BY <3>1, <3>2, <3>3, <3>4, <3>5 DEF RestInv
    <2> QED BY <1>2, <2>2, <2>3, MicEffect
  <1>3. CASE areImagesReady
    <2>0. PICK d \in Clusters : d = task.current
      BY <1>0, <1>3, ReadyEffect
    <2> USE <2>0
    <2>1. /\ Steady /\ UNCHANGED <<mic, cachedMIC, mw, queue>> /\ task'.spec = task.spec /\ d \in task.todo
          /\ d \in Clusters /\ task.step = "ready"
          /\ lost' = IF cachedMIC[d].exists THEN lost \ {d} ELSE lost \cup {d}
      BY <1>0, <1>3, ReadyEffect DEF Steady
    <2>2. CASE cachedMIC[d].exists /\ task'.step = "work" /\ task'.current = d /\ task'.todo = task.todo
      <3>1. SelectionCurrent' /\ TodoSelected' /\ ClaimsCurrent'
        BY <2>1, <2>2, SteadyFrame
      <3>2. OthersGone'
        BY <2>2 DEF OthersGone
      <3>3. SpecCurrent'
        BY <2>1, <2>2 DEF Steady, SameTask, RestInv, SpecCurrent
      <3>4. OnlyRight'
        BY <2>1, <2>2, NotYet
      <3>5. AtMIC'
        BY <1>a, <2>1, <2>2 DEF AtMIC, Steady
      <3> QED BY <3>1, <3>2, <3>3, <3>4, <3>5 DEF RestInv
    <2>3. CASE /\ ~(cachedMIC[d].exists /\ DoAllImagesExist(cachedMIC[d]))
               /\ task'.step = "clusters" /\ task'.todo = task.todo \ {d}
      <3>1. ASSUME mcm.exists, ~queue, d \notin lost', task.spec = mcm.spec,
                   task.claims[d] = cluster[d].claim
            PROVE  (Seen(d) /\ Settled(d))'
        <4>1. cachedMIC[d].exists /\ ~DoAllImagesExist(cachedMIC[d])
          BY <2>1, <2>3, <3>1
        <4>2. Seen(d)
          BY <1>a, <2>1, <3>1, <4>1 DEF AtMIC, Seen
        <4>3. PICK i \in cachedMIC[d].images : StateOf(cachedMIC[d], i.image) # "ImageExists"
          BY <4>1 DEF DoAllImagesExist
        <4>4. mic[d].images = Wanted(d) \/ cachedMIC[d].images # mic[d].images
          BY <2>1, <3>1, <4>2 DEF CopyInv, CopyTold, Seen
        <4>5. Denied(d)
          <5>1. CASE cachedMIC[d].images # mic[d].images
            BY <5>1 DEF Denied
          <5>2. CASE cachedMIC[d].images = mic[d].images
            <6>1. cachedMIC[d].images = ImagesOf(mcm.spec, KernelVersions(cluster[d].claim))
              BY <3>1, <4>4, <5>2 DEF Wanted
            <6>2. PICK k \in Mapped(mcm.spec, KernelVersions(cluster[d].claim)) : i.image = mcm.spec[k].image
              BY <4>3, <6>1, MappedImages
            <6>3. StateOf(cachedMIC[d], mcm.spec[k].image) # "ImageExists"
              BY <4>3, <6>2
            <6> QED BY <6>2, <6>3 DEF Denied
          <5> QED BY <5>1, <5>2
        <4>6. Seen(d) /\ Settled(d)
          BY <4>2, <4>5 DEF Settled
        <4> QED BY <2>1, <4>6, SameVerdict DEF Steady
      <3> QED BY <2>1, <2>3, <3>1, TurnOver
    <2> QED BY <1>3, <2>2, <2>3, ReadyEffect
  <1>4. CASE setManifestWork
    <2>0. PICK d \in Clusters : d = task.current
      BY <1>0, <1>4, WorkEffect
    <2> USE <2>0
    <2> DEFINE maps == MappingsOf(task.spec, KernelVersions(task.claims[d]))
    <2>1. /\ Steady /\ task'.step = "clusters" /\ d \in task.todo /\ d \in Clusters
          /\ task'.todo = task.todo \ {d} /\ task.step = "work" /\ UNCHANGED <<mic, cachedMIC>>
      BY <1>0, <1>4, WorkEffect DEF Steady
    <2>2. PICK p \in {"live", "deleting"} :
             mw' = [mw EXCEPT ![d] = [phase |-> p, owner |-> task.uid, mappings |-> maps,
                                      conditions |-> mw[d].conditions]]
      BY <1>4, WorkEffect
    <2> HIDE DEF maps
    <2>3. mw'[d].phase \in {"live", "deleting"} /\ mw'[d].owner = task.uid /\ mw'[d].mappings = maps
      BY <1>0, <2>1, <2>2 DEF WorkShape
    <2>4. ASSUME mcm.exists, ~queue, cluster[d].claim # None, task.uid = mcm.uid, task.spec = mcm.spec,
                 task.claims[d] = cluster[d].claim
          PROVE  (Seen(d) /\ Settled(d))'
      <3>1. Seen(d)'
        BY <1>a, <2>1, <2>4 DEF AtMIC, Seen, Steady
      <3>2. maps = MappingsOf(mcm.spec, KernelVersions(cluster[d].claim))
        BY <2>4 DEF maps
      <3>3. (Right(d) \/ mw[d].phase = "deleting")'
        BY <2>1, <2>3, <2>4, <3>2 DEF Right, Steady
      <3> QED BY <3>1, <3>3 DEF Settled
    <2> QED BY <2>1, <2>4, TurnOver
  <1>5. CASE GarbageCollect
    <2>1. CASE task' = Idle /\ queue'
      BY <2>1, <1>5, CollectEffect, QueuedRest
    <2>2. CASE ~(task' = Idle /\ queue')
      <3>1. /\ Steady /\ task'.step = "updateStatus" /\ task'.todo = {} /\ task.todo = {}
            /\ UNCHANGED <<mic, cachedMIC, lost>>
            /\ \A c \in Clusters \ DOMAIN task.claims : mw'[c].phase # "live"
            /\ \A c \in DOMAIN task.claims \cap Clusters : mw'[c] = mw[c]
        BY <1>5, <2>2, CollectEffect DEF Steady
      <3>2. SelectionCurrent' /\ TodoSelected' /\ ClaimsCurrent'
        BY <3>1, SteadyFrame
      <3>3. SpecCurrent' /\ AtMIC'
        BY <3>1 DEF SpecCurrent, AtMIC
      <3> SUFFICES ASSUME mcm.exists, ~queue PROVE OthersGone' /\ OnlyRight'
        BY <3>1, <3>2, <3>3 DEF RestInv, OthersGone, OnlyRight, Done, Steady
      <3>4. DOMAIN task.claims = SelectedManagedClusters
        BY <3>1 DEF RestInv, SelectionCurrent, Steady
      <3>5. /\ SelectedManagedClusters' = SelectedManagedClusters
            /\ \A c \in Clusters : Selected(c)' <=> Selected(c)
        BY <3>1, SteadySelection DEF Steady
      <3>6. OthersGone'
        BY <3>1, <3>4, <3>5 DEF OthersGone, SelectedManagedClusters
      <3>7. OnlyRight'
        <4> SUFFICES ASSUME NEW c \in Clusters, Done(c)' PROVE (Seen(c) /\ Settled(c))'
          BY DEF OnlyRight
        <4>1. Done(c) /\ mw'[c] = mw[c]
          BY <3>1, <3>4, <3>5 DEF Done, Steady
        <4>2. Seen(c) /\ Settled(c)
          BY <1>a, <4>1 DEF OnlyRight
        <4> QED BY <3>1, <4>1, <4>2, SameVerdict DEF Steady
      <3> QED BY <3>6, <3>7
    <2> QED BY <2>1, <2>2
  <1>6. CASE ManagedClusterModuleUpdateStatus
    <2>1. /\ UNCHANGED <<cluster, mic, cachedMIC, mw, lost>> /\ task' = Idle /\ task'.step = "idle"
          /\ mcm'.exists = mcm.exists /\ mcm'.uid = mcm.uid /\ mcm'.spec = mcm.spec
          /\ mcm'.everything = mcm.everything /\ task.step = "updateStatus" /\ (queue => queue')
      BY <1>6, StatusEffect
    <2>2. /\ SelectedManagedClusters' = SelectedManagedClusters
          /\ \A c \in Clusters : Selected(c)' <=> Selected(c)
      BY <2>1, SteadySelection
    <2>3. TodoSelected'
      BY <2>1 DEF TodoSelected, Idle
    <2>4. SelectionCurrent' /\ ClaimsCurrent' /\ SpecCurrent' /\ AtMIC'
      BY <2>1 DEF SelectionCurrent, ClaimsCurrent, SpecCurrent, AtMIC
    <2>5. OthersGone'
      BY <2>1, <2>2 DEF RestInv, OthersGone
    <2>6. task.todo = {}
      BY <2>1 DEF RestInv, TodoSelected
    <2>7. OnlyRight'
      <3> SUFFICES ASSUME NEW c \in Clusters, Done(c)' PROVE (Seen(c) /\ Settled(c))'
        BY DEF OnlyRight
      <3>1. Done(c)
        BY <2>1, <2>2, <2>6 DEF Done
      <3>2. Seen(c) /\ Settled(c)
        BY <1>a, <3>1 DEF OnlyRight
      <3> QED BY <2>1, <3>2, SameVerdict
    <2> QED BY <2>3, <2>4, <2>5, <2>7 DEF RestInv
  <1>7. CASE ClusterCallFails
    <2>1. PICK d \in task.todo : task'.todo = task.todo \ {d} /\ lost' = lost \cup {d}
      BY <1>7, FailEffect
    <2>2. Steady /\ task'.step = "clusters" /\ d \in Clusters
      BY <1>0, <1>7, FailEffect DEF Steady, TaskShape
    <2> QED BY <2>1, <2>2, TurnOver
  <1>8. CASE CallFails
    BY <1>8, CallFailsEffect, QueuedRest
  <1>9. ASSUME NEW d \in Clusters, Pipeline(d) PROVE RestInv'
    <2>1. /\ UNCHANGED <<cluster, mcm, cachedMIC, mw, queue, task, lost>>
          /\ \A c \in Clusters : /\ mic'[c].exists = mic[c].exists /\ mic'[c].owner = mic[c].owner
                                 /\ mic'[c].images = mic[c].images
      BY <1>9, PipelineEffect
    <2>2. ASSUME NEW c \in Clusters, Done(c) PROVE (Seen(c) /\ Settled(c))'
      <3>1. Seen(c) /\ Settled(c)
        BY <1>a, <2>2 DEF OnlyRight
      <3> QED BY <2>1, <3>1, SameVerdict
    <2>3. AtMIC'
      BY <1>a, <2>1 DEF AtMIC
    <2> QED BY <2>1, <2>2, <2>3, RestFrame
  <1>10. ASSUME NEW d \in Clusters, DeliverMIC(d) PROVE RestInv'
    <2>1. /\ UNCHANGED <<cluster, mcm, mic, mw, task, lost>> /\ queue' \in BOOLEAN /\ (queue => queue')
          /\ cachedMIC[d].exists /\ mic[d].exists => queue'
          /\ cachedMIC'[d] = mic[d] /\ \A c \in Clusters : c # d => cachedMIC'[c] = cachedMIC[c]
      BY <1>10, DeliverEffect
    <2>2. CASE queue'
      BY <2>1, <2>2, QueuedRest
    <2>3. CASE ~queue'
      <3>1. ~queue /\ UNCHANGED queue /\ ~(cachedMIC[d].exists /\ mic[d].exists)
        BY <1>0, <2>1, <2>3
      <3>2. ASSUME NEW c \in Clusters, Done(c) PROVE (Seen(c) /\ Settled(c))'
        <4>1. Seen(c) /\ Settled(c)
          BY <1>a, <3>2 DEF OnlyRight
        <4>2. c # d
          BY <3>1, <4>1 DEF Seen
        <4> QED BY <2>1, <4>1, <4>2, SameVerdict
      <3>3. AtMIC'
        BY <1>a, <2>1, <3>1 DEF AtMIC
      <3> QED BY <2>1, <3>1, <3>2, <3>3, RestFrame
    <2> QED BY <2>2, <2>3
  <1>11. ASSUME NEW d \in Clusters, CollectMIC(d) PROVE RestInv'
    <2>1. /\ UNCHANGED <<cluster, mcm, cachedMIC, mw, queue, task, lost>>
          /\ \A c \in Clusters : c # d => mic'[c] = mic[c]
          /\ ~mcm.exists \/ mic[d].owner # mcm.uid
      BY <1>11, CollectMICEffect DEF Orphan
    <2>2. ASSUME NEW c \in Clusters, Done(c) PROVE (Seen(c) /\ Settled(c))'
      <3>1. Seen(c) /\ Settled(c) /\ mcm.exists
        BY <1>a, <2>2 DEF OnlyRight, Done
      <3>2. c # d
        BY <2>1, <3>1 DEF Seen
      <3> QED BY <2>1, <3>1, <3>2, SameVerdict
    <2>3. AtMIC'
      BY <1>a, <2>1 DEF AtMIC
    <2> QED BY <2>1, <2>2, <2>3, RestFrame
  <1>12. ASSUME NEW c \in Clusters, CollectWork(c) \/ WorkGone(c) \/ WorkReports(c) PROVE RestInv'
    BY <1>12, AgentEffect, QueuedRest
  <1>13. ASSUME NEW d \in Clusters, ReportClaim(d) PROVE RestInv'
    <2>1. /\ UNCHANGED <<mcm, mic, cachedMIC, mw, task, lost>> /\ queue' \in BOOLEAN /\ (queue => queue')
      BY <1>13, HearEffect
    <2>2. CASE queue'
      BY <2>1, <2>2, QueuedRest
    <2>3. CASE ~queue'
      <3>0. /\ ~(claim[d] # None /\ Selected(d)) /\ ~queue
            /\ \A c \in Clusters : /\ cluster'[c].labelled = cluster[c].labelled
                                   /\ c # d => cluster'[c] = cluster[c]
            /\ cluster'[d].claim = claim[d]
        BY <1>13, <2>3, ReportEffect
      <3>1. /\ SelectedManagedClusters' = SelectedManagedClusters
            /\ \A c \in Clusters : Selected(c)' <=> Selected(c)
        BY <2>1, <3>0 DEF Selected, SelectedManagedClusters
      <3>2. SelectionCurrent' /\ TodoSelected' /\ SpecCurrent'
        BY <2>1, <3>0, <3>1 DEF RestInv, SelectionCurrent, TodoSelected, SpecCurrent
      <3>3. ClaimsCurrent'
        <4> SUFFICES ASSUME mcm.exists, task.step # "idle", NEW c \in DOMAIN task.claims,
                            cluster'[c].claim # None
                     PROVE  task.claims[c] = cluster'[c].claim
          BY <2>1 DEF ClaimsCurrent
        <4>1. c \in Clusters /\ Selected(c)
          BY <3>0 DEF RestInv, SelectionCurrent, SelectedManagedClusters
        <4>2. c # d
          BY <3>0, <4>1
        <4> QED BY <3>0, <4>1, <4>2 DEF RestInv, ClaimsCurrent
      <3>4. OthersGone' /\ AtMIC'
        BY <1>a, <2>1, <3>0, <3>1 DEF RestInv, OthersGone, AtMIC
      <3>5. OnlyRight'
        <4> SUFFICES ASSUME NEW c \in Clusters, Done(c)' PROVE (Seen(c) /\ Settled(c))'
          BY DEF OnlyRight
        <4>1. c # d
          BY <3>0, <3>1 DEF Done, SelectedManagedClusters
        <4>2. Done(c)
          BY <2>1, <3>0, <3>1, <4>1 DEF Done
        <4>3. Seen(c) /\ Settled(c)
          BY <1>a, <4>2 DEF OnlyRight
        <4> QED BY <2>1, <3>0, <4>1, <4>3, SameVerdict
      <3> QED BY <3>2, <3>3, <3>4, <3>5 DEF RestInv
    <2> QED BY <2>2, <2>3
  <1>14. ASSUME NEW d \in Clusters, RelabelCluster(d) PROVE RestInv'
    <2>1. /\ UNCHANGED <<mcm, mic, mw, task, lost>> /\ (mcm.exists => queue')
      BY <1>14 DEF RelabelCluster, images
    <2>2. TodoSelected'
      BY <2>1 DEF RestInv, TodoSelected
    <2> QED BY <2>1, <2>2 DEF RestInv, SelectionCurrent, ClaimsCurrent, SpecCurrent, OthersGone, AtMIC,
                              OnlyRight, Done
  <1>15. ASSUME UNCHANGED <<cluster, mcm, mic, cachedMIC, mw, queue, task, lost>> PROVE RestInv'
    <2>1. ASSUME NEW c \in Clusters, Done(c) PROVE (Seen(c) /\ Settled(c))'
      <3>1. Seen(c) /\ Settled(c)
        BY <1>a, <2>1 DEF OnlyRight
      <3> QED BY <1>15, <3>1, SameVerdict
    <2>2. AtMIC'
      BY <1>a, <1>15 DEF AtMIC
    <2> QED BY <1>15, <2>1, <2>2, RestFrame
  <1>16. ASSUME NEW c \in Clusters, ReconcileClaim(c) \/ NodeChanges(c) \/ DeleteClaim(c) PROVE RestInv'
    BY <1>15, <1>16, SpokeEffect
  <1>17. CASE CreateMCM \/ EditMCM \/ TriggerRebuild \/ DeleteMCM
    BY <1>17, UserEffect, QueuedRest
  <1>18. CASE UNCHANGED vars
    BY <1>15, <1>18 DEF vars, images
  <1> QED
    BY <1>1, <1>2, <1>3, <1>4, <1>5, <1>6, <1>7, <1>8, <1>9, <1>10, <1>11, <1>12, <1>13, <1>14, <1>16,
       <1>17, <1>18
    DEF Next, Work, Agents, Environment

(* Whenever the controller rests, no cluster that is not selected has a    *)
(* live ManifestWork, and the only selected one, once its claim and images *)
(* are ready, the cache knows of it and its last error was not swallowed,  *)
(* has the ManifestWork of the spec and the kernels of now (Reconcile of   *)
(* managedclustermodule_reconciler.go): no event between a List and the    *)
(* patch that follows from it is missed, also when patch and check went by *)
(* an old copy of the ModuleImagesConfig.                                  *)
THEOREM WorksRightAtRest == Spec => []WorksRestRight
  <1>1. RestInv => WorksRestRight
    <2> SUFFICES ASSUME RestInv, AtRest, mcm.exists
                 PROVE  /\ \A c \in Clusters : mw[c].phase = "live" => Selected(c)
                        /\ \A c \in Clusters : SelectedManagedClusters = {c} /\ Ready(c) /\ cachedMIC[c] = mic[c]
                                               => Right(c) \/ mw[c].phase = "deleting"
      BY DEF WorksRestRight
    <2>1. \A c \in Clusters : mw[c].phase = "live" => Selected(c)
      BY DEF RestInv, OthersGone, AtRest
    <2>2. ASSUME NEW c \in Clusters, SelectedManagedClusters = {c}, Ready(c), cachedMIC[c] = mic[c]
          PROVE  Right(c) \/ mw[c].phase = "deleting"
      <3>1. Done(c)
        BY <2>2 DEF AtRest, Done, Ready
      <3>2. Settled(c)
        BY <3>1 DEF RestInv, OnlyRight
      <3>3. ~Denied(c)
        BY <2>2 DEF Denied, Ready, Mapped
      <3> QED BY <3>2, <3>3 DEF Settled
    <2> QED BY <2>1, <2>2
  <1> QED BY <1>1, ShapeInit, ShapeStep, ClusterInit, ClusterStep, CopyInit, CopyStep, RestInit, RestStep, PTL
          DEF Spec

=============================================================================
