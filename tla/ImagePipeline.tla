---------------------------- MODULE ImagePipeline ----------------------------
(***************************************************************************)
(* How KMM finds out whether the images of a Module exist, and builds and  *)
(* signs the ones that do not: the MIC controller                          *)
(* (internal/controllers/mic_reconciler.go) with its pull Pods             *)
(* (internal/pod/imagepuller.go), and the MBSC controller                  *)
(* (internal/controllers/mbsc_reconciler.go) with its build and sign Pods  *)
(* (internal/buildsign), for the ModuleImagesConfig (MIC) of one Module.   *)
(*                                                                         *)
(* Both controllers run in one manager and read everything from its        *)
(* informers' cache, which lags behind the API server, also behind their   *)
(* own writes.                                                             *)
(* Each image stands for one kernel, so a build or sign Pod, whose name    *)
(* is made of Module, action and kernel, is named by image and action.     *)
(***************************************************************************)
EXTENDS Naturals, FiniteSets

CONSTANTS
    Images,     \* container images of the Module
    Specs,      \* specs an image may have: revision of the build section and of
                \* the sign section (0: no section), and SkipWaitMissingImage
    Edits,      \* pairs of specs (or None) an edit of the Module may go between
    GoodRevs,   \* revisions of a section with which a build or a sign succeeds
    PullNames,  \* bound: names of pull Pods
    MaxEvents,  \* bound: edits and triggers of the Module, lost images and
                \* failed API calls, together
    Dependable, \* Pods, the registry and the deletion of a Pod do not fail for
                \* reasons of their own, and a successful Pod that is deleted stays
                \* (job.gcDelay) until its success is recorded
    None        \* nothing there: no object, no entry, empty status

Actions == {"BuildImage", "SignImage"}
States == {"Exists", "DoesNotExist", "NeedsBuilding", "NeedsSigning"}
Revs == {s.build : s \in Specs} \cup {s.sign : s \in Specs}
Hashes == [rev : Revs, built : BOOLEAN]

ASSUME ConstantsAssumption ==
    /\ Specs \subseteq [build : Nat, sign : Nat, skip : BOOLEAN]
    /\ Edits \subseteq (Specs \cup {None}) \X (Specs \cup {None})
    /\ MaxEvents \in Nat /\ Dependable \in BOOLEAN
    /\ IsFiniteSet(Images)
    /\ None \notin States
    /\ \A s \in Specs : s # None

VARIABLES
    mic,        \* the MIC: spec of each image, number of its edits (a write that
                \* undoes another is an event all the same), trigger, state of each image
    mbsc,       \* the ModuleBuildSignConfig (MBSC), or None
    pull,       \* the pull Pods
    jobs,       \* the build or sign Pod of each image and action, or None
    registry,   \* who pushed what the registry holds under an image's name
    lost,       \* images the registry has lost
    cache,      \* the manager's cache of the four kinds of objects
    micWork,    \* the MIC's key is in the MIC controller's queue
    mbscWork,   \* the MBSC's key is in the MBSC controller's queue
    collecting, \* uid of the MBSC whose Reconcile has yet to collect Pods, or None
    uids,       \* number of MBSCs created
    faults      \* number of failed API calls

objects == <<mic, mbsc, pull, jobs>>
world == <<registry, lost>>
vars == <<objects, world, cache, micWork, mbscWork, collecting, uids, faults>>

MIC == [spec : [Images -> Specs \cup {None}], edits : Nat, gen : Nat,
        states : [Images -> States \cup {None}], statusGen : Nat]
MBSC == [uid : Nat,
         spec : [Images -> [action : Actions, sec : Specs] \cup {None}],
         status : [Images -> [action : Actions, ok : BOOLEAN] \cup {None}]]
PullPod == [name : PullNames, image : Images, once : BOOLEAN,
            phase : {"Pending", "BackOff", "Succeeded", "Broken"}]
Job == [uid : Nat, hash : Hashes, phase : {"Running", "Succeeded", "Failed"},
        deleting : BOOLEAN]

ASSUME NoneAssumption ==
    /\ None \notin MBSC /\ None \notin Job
    /\ None \notin [action : Actions, sec : Specs]
    /\ None \notin [action : Actions, ok : BOOLEAN]

Events == mic.gen + mic.edits + faults + Cardinality(lost)

NoStates == [i \in Images |-> None]

Init ==
    /\ mic \in [spec : [Images -> Specs \cup {None}], edits : {0}, gen : {0},
                states : {NoStates}, statusGen : {0}]
    /\ mbsc = None
    /\ pull = {}
    /\ jobs = [j \in Images \X Actions |-> None]
    /\ registry \in [Images -> {"empty", "user"}]
    /\ lost = {}
    /\ cache = [mic |-> mic, mbsc |-> mbsc, pull |-> pull, jobs |-> jobs]
    /\ micWork = TRUE /\ mbscWork = FALSE
    /\ collecting = None
    /\ uids = 0 /\ faults = 0

-----------------------------------------------------------------------------
(* The Module controller, on behalf of users and nodes                     *)

\* handleMIC writes spec.images: an image comes, goes or has its sections edited.
handleMIC(i, s) ==
    /\ Events < MaxEvents
    /\ <<mic.spec[i], s>> \in Edits
    /\ mic' = [mic EXCEPT !.spec[i] = s, !.edits = @ + 1]
    /\ UNCHANGED <<mbsc, pull, jobs, world, cache, micWork, mbscWork, collecting,
                   uids, faults>>

\* handleMIC passes on a new imageRebuildTriggerGeneration.
ChangeTrigger ==
    /\ Events < MaxEvents
    /\ mic' = [mic EXCEPT !.gen = @ + 1]
    /\ UNCHANGED <<mbsc, pull, jobs, world, cache, micWork, mbscWork, collecting,
                   uids, faults>>

-----------------------------------------------------------------------------
(* MIC controller.  Its Reconcile is one step: what it reads is as old as  *)
(* the cache, and nobody else writes the MIC's status, the MBSC's spec or  *)
(* creates pull Pods, so a step of others between two of its calls is      *)
(* covered by that step before or after, with the cache behind.            *)

\* A merge patch of the states sends them if the local copy was changed.
Patch(live, obj, states) ==
    [live EXCEPT !.states = IF states = obj.states THEN @ ELSE states]

\* handleImageRebuildTriggerGeneration: the MBSC is deleted, all states are
\* cleared and the trigger is taken over; the Reconcile is requeued.  When the
\* patch fails, the MBSC is gone all the same.
handleTrigger(fails) ==
    /\ micWork
    /\ cache.mic.gen # cache.mic.statusGen
    /\ mbsc' = None
    /\ IF fails
       THEN Events < MaxEvents /\ faults' = faults + 1 /\ UNCHANGED mic
       ELSE /\ mic' = [Patch(mic, cache.mic, NoStates) EXCEPT !.statusGen = cache.mic.gen]
            /\ UNCHANGED faults
    /\ UNCHANGED <<pull, jobs, world, cache, micWork, mbscWork, collecting, uids>>

\* GetPullPodStatus: a Pod that waits for its image has failed, unless it is to
\* wait until the image appears.
PullStatus(p) ==
    CASE p.phase = "Succeeded" -> "Success"
      [] p.phase = "Broken" -> "UnexpectedErr"
      [] p.phase = "BackOff" /\ p.once -> "Failed"
      [] OTHER -> "InProcess"

Finished(p) == PullStatus(p) \in {"Success", "Failed"}

\* The state a finished pull Pod of an image with spec s and state old leads to.
StateByPull(p, s, old) ==
    CASE PullStatus(p) = "Success" -> "Exists"
      [] PullStatus(p) = "Failed" /\ s.build # 0 -> "NeedsBuilding"
      [] PullStatus(p) = "Failed" /\ s.build = 0 /\ s.sign # 0 -> "NeedsSigning"
      [] PullStatus(p) = "Failed" /\ s.build = 0 /\ s.sign = 0 /\ s.skip -> "DoesNotExist"
      [] OTHER -> old

\* The new states; of several Pods for one image the last of the list counts.
StatesByPull(obj) ==
    {st \in [Images -> States \cup {None}] :
        \A i \in Images :
            LET ps == {p \in cache.pull : p.image = i /\ obj.spec[i] # None /\ Finished(p)}
            IN IF ps = {} THEN st[i] = obj.states[i]
               ELSE \E p \in ps : st[i] = StateByPull(p, obj.spec[i], obj.states[i])}

\* updateStatusByPullPods: the MIC after its patch and the local copy, which the
\* answer replaces; without Pods nothing is done.
updateStatusByPullPods(states) ==
    LET m == Patch(mic, cache.mic, states)
    IN IF cache.pull = {} THEN [live |-> mic, obj |-> cache.mic]
       ELSE [live |-> m, obj |-> m]

\* The Pods it deletes after the patch.
PodsToDelete == {p \in cache.pull : cache.mic.spec[p.image] = None \/ Finished(p)}

Named(p, pods) == \E q \in pods : q.image = p.image /\ q.name = p.name

\* Mutant: any end of the action counts.
StateByMBSCAnyEnd(r, s, old) == IF s = None \/ r = None THEN old ELSE "Exists"

\* The state of an image with spec s after the result r of its build or sign.
StateByMBSC(r, s, old) ==
    CASE s = None \/ r = None -> old
      [] s # None /\ r # None /\ ~r.ok -> "DoesNotExist"
      [] s # None /\ r # None /\ r.ok /\ r.action = "BuildImage" /\ s.sign # 0 ->
            "NeedsSigning"
      [] OTHER -> "Exists"

\* updateStatusByMBSC, from the MIC and the copy that updateStatusByPullPods left.
updateStatusByMBSC(r) ==
    LET states == [i \in Images |->
                     StateByMBSC(cache.mbsc.status[i], r.obj.spec[i], r.obj.states[i])]
        m == Patch(r.live, r.obj, states)
    IN IF cache.mbsc = None THEN r ELSE [live |-> m, obj |-> m]

\* Images for which processImagesSpecs creates a pull Pod, and their Pods.  A name
\* is not used again while the Pod that had it is cached.
PullCalls(obj) ==
    {i \in Images : /\ obj.spec[i] # None /\ obj.states[i] = None
                    /\ ~\E p \in cache.pull : p.image = i}

FreeNames(i) == {n \in PullNames : ~\E p \in pull \cup cache.pull : p.image = i /\ p.name = n}

CreatePullPod(i, s) ==
    [image |-> i, name |-> CHOOSE n \in FreeNames(i) : TRUE, phase |-> "Pending",
     once |-> s.build # 0 \/ s.sign # 0 \/ s.skip]

\* Mutant: an image is built without being looked for.
MBSCCallsUnchecked(obj) ==
    {i \in Images : obj.spec[i] # None /\ obj.spec[i].build # 0 /\ obj.states[i] # "Exists"}

\* Images for which it writes the MBSC: DoesNotExist falls through to a build.
MBSCCalls(obj) ==
    {i \in Images : /\ obj.spec[i] # None
                    /\ \/ obj.states[i] \in {"NeedsBuilding", "NeedsSigning"}
                       \/ /\ obj.states[i] = "DoesNotExist"
                          /\ obj.spec[i].build # 0 \/ obj.spec[i].sign # 0}

ActionFor(state) == IF state = "NeedsSigning" THEN "SignImage" ELSE "BuildImage"

\* setModuleImageSpec for the images of a set.
setModuleImageSpec(spec, obj, is) ==
    [i \in Images |-> IF i \in is THEN [action |-> ActionFor(obj.states[i]), sec |-> obj.spec[i]]
                      ELSE spec[i]]

\* mbsc.CreateOrPatch for all images of a pass.  It reads the MBSC from the cache
\* and its merge patch replaces the whole list, so a call undoes the ones before
\* it that are not cached yet: only the changes for the images of a set remain.
CreateOrPatch(obj, is, failed) ==
    LET changed == IF cache.mbsc = None THEN is
                   ELSE {i \in is : setModuleImageSpec(cache.mbsc.spec, obj, is)[i]
                                        # cache.mbsc.spec[i]}
    IN IF changed = {}
       THEN ~failed /\ UNCHANGED <<mbsc, uids>>
       ELSE IF (cache.mbsc = None) # (mbsc = None)  \* AlreadyExists or NotFound
       THEN failed /\ UNCHANGED <<mbsc, uids>>
       ELSE \E kept \in (SUBSET changed) \ {{}} :
              IF mbsc = None
              THEN /\ mbsc' = [uid |-> uids + 1, status |-> NoStates,
                               spec |-> setModuleImageSpec(NoStates, obj, kept)]
                   /\ uids' = uids + 1
                   /\ failed = (kept # changed)  \* AlreadyExists
              ELSE /\ mbsc' = [mbsc EXCEPT !.spec =
                                  setModuleImageSpec(cache.mbsc.spec, obj, kept)]
                   /\ ~failed
                   /\ UNCHANGED uids

\* A Reconcile that makes all its calls.  A failed one queues the MIC again.
MICReconcile ==
    /\ micWork
    /\ cache.mic.gen = cache.mic.statusGen
    /\ \E states \in StatesByPull(cache.mic), failed \in BOOLEAN :
          LET r == updateStatusByMBSC(updateStatusByPullPods(states))
              creates == {i \in PullCalls(r.obj) : FreeNames(i) # {}}
          IN /\ mic' = r.live
             /\ pull' = {p \in pull : ~Named(p, PodsToDelete)}
                        \cup {CreatePullPod(i, r.obj.spec[i]) : i \in creates}
             /\ CreateOrPatch(r.obj, MBSCCalls(r.obj), failed)
             /\ micWork' = (failed \/ creates # PullCalls(r.obj))
    /\ UNCHANGED <<jobs, world, cache, mbscWork, collecting, faults>>

\* A Reconcile that a failed call, or a restart of the manager, ends after the
\* patch for the pull Pods, with some of them deleted, or after the patch for the
\* MBSC.
MICStops ==
    /\ micWork
    /\ cache.mic.gen = cache.mic.statusGen
    /\ Events < MaxEvents /\ faults' = faults + 1
    /\ \E states \in StatesByPull(cache.mic), deleted \in SUBSET PodsToDelete :
          LET r == updateStatusByPullPods(states)
          IN /\ mic' \in IF deleted = PodsToDelete
                         THEN {r.live, updateStatusByMBSC(r).live} ELSE {r.live}
             /\ pull' = {p \in pull : ~Named(p, deleted)}
    /\ UNCHANGED <<mbsc, jobs, world, cache, micWork, mbscWork, collecting, uids>>

-----------------------------------------------------------------------------
(* MBSC controller.  Its Reconcile is two steps, since the Pods it         *)
(* collects are listed again after it has recorded their results.          *)

\* GetResourceByKernel: the Pod, if the MBSC controls it.
OwnedJob(uid, i, a) ==
    LET j == cache.jobs[<<i, a>>] IN IF j # None /\ j.uid = uid THEN j ELSE None

\* Mutant: a Pod that has not failed counts as successful.
StatusByJobEarly(obj, i) ==
    LET e == obj.spec[i]
        j == IF e = None THEN None ELSE OwnedJob(obj.uid, i, e.action)
    IN IF j = None THEN obj.status[i]
       ELSE [action |-> e.action, ok |-> j.phase # "Failed"]

\* GetStatus and SetImageStatus: a finished Pod decides, otherwise nothing changes.
StatusByJob(obj, i) ==
    LET e == obj.spec[i]
        j == IF e = None THEN None ELSE OwnedJob(obj.uid, i, e.action)
    IN IF j = None \/ j.phase = "Running" THEN obj.status[i]
       ELSE [action |-> e.action, ok |-> j.phase = "Succeeded"]

\* updateStatus: the MBSC after the patch, which is also the local copy.
updateStatus ==
    LET status == [i \in Images |-> StatusByJob(cache.mbsc, i)]
    IN [mbsc EXCEPT !.status = IF status = cache.mbsc.status THEN @ ELSE status]

\* Mutant: an image with any status is done.
SyncCallsOnce(obj) == {i \in Images : obj.spec[i] # None /\ obj.status[i] = None}

\* Images for which processImagesSpecs calls Sync.
SyncCalls(obj) ==
    {i \in Images : /\ obj.spec[i] # None
                    /\ obj.status[i] # [action |-> obj.spec[i].action, ok |-> TRUE]}

\* The section of a spec an action needs, and the hash of the Pod made from it.
Section(a, s) == IF a = "BuildImage" THEN s.build ELSE s.sign
HashOf(a, s) == [rev |-> Section(a, s), built |-> a = "SignImage" /\ s.build # 0]

\* Without the section, MakeResourceTemplate dereferences nil.
Panics(obj) ==
    {i \in SyncCalls(obj) : Section(obj.spec[i].action, obj.spec[i].sec) = 0}

\* Mutant: an existing Pod is left alone.
SyncNeverReplaces(obj, k) ==
    IF jobs[k] # None THEN jobs[k]
    ELSE [uid |-> obj.uid, hash |-> HashOf(k[2], obj.spec[k[1]].sec),
          phase |-> "Running", deleting |-> FALSE]

\* Sync: the Pod of k after it.  One that is not cached is created, unless it
\* exists; one whose template has changed is deleted.
Sync(obj, k) ==
    LET e == obj.spec[k[1]]
        hash == HashOf(k[2], e.sec)
        cached == OwnedJob(obj.uid, k[1], k[2])
    IN IF cached = None /\ jobs[k] = None
       THEN [uid |-> obj.uid, hash |-> hash, phase |-> "Running", deleting |-> FALSE]
       ELSE IF cached # None /\ cached.hash # hash /\ jobs[k] # None
       THEN [jobs[k] EXCEPT !.deleting = TRUE]
       ELSE jobs[k]

SyncAll(obj, is) ==
    [k \in Images \X Actions |->
        IF k[1] \in is /\ obj.spec[k[1]].action = k[2] THEN Sync(obj, k) ELSE jobs[k]]

\* The calls of Sync that delete a Pod; when they fail the error is only logged.
Deletions(obj) ==
    {i \in SyncCalls(obj) :
        LET e == obj.spec[i]
            j == OwnedJob(obj.uid, i, e.action)
        IN j # None /\ j.hash # HashOf(e.action, e.sec)}

\* Reconcile up to the garbage collection.  A panic, recovered as an error, or a
\* failed call ends it, with some of the calls of Sync done.
MBSCReconcile ==
    /\ mbscWork /\ collecting = None /\ cache.mbsc # None /\ mbsc # None
    /\ mbsc' = updateStatus
    /\ \/ /\ Panics(mbsc') = {}
          /\ \E unlucky \in SUBSET Deletions(mbsc') :
                /\ Dependable => unlucky = {}
                /\ jobs' = SyncAll(mbsc', SyncCalls(mbsc') \ unlucky)
          /\ collecting' = mbsc.uid
          /\ mbscWork' = FALSE
          /\ UNCHANGED faults
       \/ /\ Panics(mbsc') # {}
          /\ \E done \in SUBSET (SyncCalls(mbsc') \ Panics(mbsc')) :
                jobs' = SyncAll(mbsc', done)
          /\ UNCHANGED <<collecting, mbscWork, faults>>
       \/ /\ Events < MaxEvents /\ faults' = faults + 1
          /\ \E done \in SUBSET (SyncCalls(mbsc') \ Panics(mbsc')) :
                jobs' = SyncAll(mbsc', done)
          /\ UNCHANGED <<collecting, mbscWork>>
    /\ UNCHANGED <<mic, pull, world, cache, micWork, uids>>

\* The MBSC is not there: ignored if the cache knows, retried if it does not.
MBSCMissing ==
    /\ mbscWork /\ collecting = None /\ cache.mbsc = None
    /\ mbscWork' = FALSE
    /\ UNCHANGED <<objects, world, cache, micWork, collecting, uids, faults>>

\* GarbageCollect: successful Pods of the MBSC are deleted.
garbageCollect(fails) ==
    /\ collecting # None
    /\ \E done \in SUBSET (Images \X Actions) :
          /\ IF fails THEN Events < MaxEvents /\ faults' = faults + 1 /\ mbscWork' = TRUE
             ELSE done = Images \X Actions /\ UNCHANGED <<faults, mbscWork>>
          /\ jobs' = [k \in Images \X Actions |->
                        LET j == OwnedJob(collecting, k[1], k[2])
                        IN IF k \in done /\ j # None /\ j.phase = "Succeeded" /\ jobs[k] # None
                           THEN [jobs[k] EXCEPT !.deleting = TRUE] ELSE jobs[k]]
    /\ collecting' = None
    /\ UNCHANGED <<mic, mbsc, pull, world, cache, micWork, uids>>

-----------------------------------------------------------------------------
(* Informers: the cache catches up with a kind of object, and the event    *)
(* queues the keys of the controllers that watch it                        *)

DeliverMIC ==
    /\ cache.mic # mic
    /\ cache' = [cache EXCEPT !.mic = mic]
    /\ micWork' = TRUE
    /\ UNCHANGED <<objects, world, mbscWork, collecting, uids, faults>>

DeliverMBSC ==
    /\ cache.mbsc # mbsc
    /\ cache' = [cache EXCEPT !.mbsc = mbsc]
    /\ micWork' = TRUE /\ mbscWork' = TRUE
    /\ UNCHANGED <<objects, world, collecting, uids, faults>>

\* Pods: the keys of their owners are queued, which are known by name: Pods of an
\* MBSC that is gone queue the one that took its name.
DeliverPods ==
    /\ cache.pull # pull \/ cache.jobs # jobs
    /\ cache' = [cache EXCEPT !.pull = pull, !.jobs = jobs]
    /\ micWork' = (micWork \/ cache.pull # pull)
    /\ mbscWork' = (mbscWork \/ cache.jobs # jobs)
    /\ UNCHANGED <<objects, world, collecting, uids, faults>>

-----------------------------------------------------------------------------
(* Kubelet, registry and garbage collector                                 *)

controllers == <<mic, mbsc, cache, micWork, mbscWork, collecting, uids, faults>>

SetPhase(p, phase) == pull' = (pull \ {p}) \cup {[p EXCEPT !.phase = phase]}

\* A pull ends; a Pod in back-off tries again.
PullEnds(p) ==
    /\ p.phase \in {"Pending", "BackOff"}
    /\ \/ registry[p.image] # "empty" /\ SetPhase(p, "Succeeded")
       \/ /\ p.phase = "Pending"
          /\ registry[p.image] = "empty" \/ ~Dependable
          /\ SetPhase(p, "BackOff")
    /\ UNCHANGED <<controllers, jobs, world>>

\* The Pod ends in a way the controller has no case for.
PullBreaks(p) ==
    /\ p.phase = "Pending" /\ ~Dependable
    /\ SetPhase(p, "Broken")
    /\ UNCHANGED <<controllers, jobs, world>>

\* A build pushes an unsigned image; a sign pushes a signed one, made of the image
\* the build pushed under the same name or of the one the sign section names.
CanSucceed(i, a) ==
    /\ jobs[<<i, a>>].hash.rev \in GoodRevs
    /\ jobs[<<i, a>>].hash.built => registry[i] # "empty"

JobSucceeds(i, a) ==
    /\ jobs[<<i, a>>] # None /\ jobs[<<i, a>>].phase = "Running"
    /\ CanSucceed(i, a)
    /\ jobs' = [jobs EXCEPT ![<<i, a>>].phase = "Succeeded"]
    /\ registry' = [registry EXCEPT ![i] = IF a = "BuildImage" THEN "built" ELSE "signed"]
    /\ UNCHANGED <<controllers, pull, lost>>

JobFails(i, a) ==
    /\ jobs[<<i, a>>] # None /\ jobs[<<i, a>>].phase = "Running"
    /\ ~CanSucceed(i, a) \/ jobs[<<i, a>>].deleting \/ ~Dependable
    /\ jobs' = [jobs EXCEPT ![<<i, a>>].phase = "Failed"]
    /\ UNCHANGED <<controllers, pull, world>>

\* The finalizers are released, by controllers that read the same cache: job-event
\* when the Pod has ended, gc-delay when it is deleted, at once or, if it succeeded,
\* after the delay.
Recorded(i, a) ==
    mbsc # None /\ mbsc.uid = jobs[<<i, a>>].uid
        => mbsc.status[i] = [action |-> a, ok |-> TRUE]

JobGone(i, a) ==
    /\ jobs[<<i, a>>] # None /\ jobs[<<i, a>>].deleting /\ jobs[<<i, a>>].phase # "Running"
    /\ cache.jobs[<<i, a>>] = jobs[<<i, a>>]
    /\ Dependable /\ jobs[<<i, a>>].phase = "Succeeded" => Recorded(i, a)
    /\ jobs' = [jobs EXCEPT ![<<i, a>>] = None]
    /\ UNCHANGED <<controllers, pull, world>>

\* Pods of an MBSC that is gone are deleted in the background.
OwnerGone(i, a) ==
    /\ jobs[<<i, a>>] # None /\ ~jobs[<<i, a>>].deleting
    /\ mbsc # None => mbsc.uid # jobs[<<i, a>>].uid
    /\ jobs' = [jobs EXCEPT ![<<i, a>>].deleting = TRUE]
    /\ UNCHANGED <<controllers, pull, world>>

\* A registry with ephemeral storage loses an image.
LoseImage(i) ==
    /\ ~Dependable /\ Events < MaxEvents /\ registry[i] # "empty"
    /\ registry' = [registry EXCEPT ![i] = "empty"]
    /\ lost' = lost \cup {i}
    /\ UNCHANGED <<controllers, pull, jobs>>

-----------------------------------------------------------------------------
Next ==
    \/ \E fails \in BOOLEAN : handleTrigger(fails) \/ garbageCollect(fails)
    \/ MICReconcile \/ MICStops \/ MBSCReconcile \/ MBSCMissing
    \/ DeliverMIC \/ DeliverMBSC \/ DeliverPods
    \/ ChangeTrigger
    \/ \E p \in pull : PullEnds(p) \/ PullBreaks(p)
    \/ \E i \in Images :
          \/ \E s \in Specs \cup {None} : handleMIC(i, s)
          \/ LoseImage(i)
          \/ \E a \in Actions : JobSucceeds(i, a) \/ JobFails(i, a) \/ JobGone(i, a)
                                \/ OwnerGone(i, a)

Fairness ==
    /\ WF_vars(handleTrigger(FALSE)) /\ WF_vars(MICReconcile)
    /\ WF_vars(MBSCReconcile) /\ WF_vars(MBSCMissing) /\ WF_vars(garbageCollect(FALSE))
    /\ WF_vars(DeliverMIC) /\ WF_vars(DeliverMBSC) /\ WF_vars(DeliverPods)
    /\ \A i \in Images :
          /\ WF_vars(\E p \in pull : p.image = i /\ PullEnds(p))
          /\ \A a \in Actions :
                WF_vars(JobSucceeds(i, a) \/ JobFails(i, a) \/ JobGone(i, a) \/ OwnerGone(i, a))

Spec == Init /\ [][Next]_vars /\ Fairness

-----------------------------------------------------------------------------
(* Properties                                                              *)

\* Every variable has its type.
TypeOK ==
    /\ mic \in MIC /\ mbsc \in MBSC \cup {None}
    /\ pull \subseteq PullPod /\ jobs \in [Images \X Actions -> Job \cup {None}]
    /\ registry \in [Images -> {"empty", "user", "built", "signed"}]
    /\ lost \subseteq Images
    /\ cache.mic \in MIC /\ cache.mbsc \in MBSC \cup {None}
    /\ cache.pull \subseteq PullPod
    /\ cache.jobs \in [Images \X Actions -> Job \cup {None}]
    /\ collecting \in Nat \cup {None}
    /\ micWork \in BOOLEAN /\ mbscWork \in BOOLEAN
    /\ uids \in Nat /\ faults \in Nat /\ Events <= MaxEvents

\* An image the MIC reports as existing is in the registry, unless the registry
\* lost it: no stale copy, repeated Reconcile or failed Pod is taken for success.
ExistsIsPresent ==
    \A i \in Images \ lost : mic.states[i] = "Exists" => registry[i] # "empty"

\* The image is the only one the MIC lists.
Only(i) == mic.spec[i] # None /\ \A j \in Images \ {i} : mic.spec[j] = None

\* The build and the sign of an image push to the same name.  While the Module is
\* not edited or triggered, one MBSC never has both running for the image of a MIC
\* that lists no other.  (With more images a patch of the whole list, made from an
\* old copy of it, can put an image back to be signed while it is built again.)
BuildThenSign ==
    mic.edits = 0 /\ mic.gen = 0 =>
        \A i \in Images : Only(i) =>
            LET b == jobs[<<i, "BuildImage">>]
                s == jobs[<<i, "SignImage">>]
            IN ~(/\ b # None /\ s # None /\ b.uid = s.uid
                 /\ b.phase = "Running" /\ s.phase = "Running")

\* Nobody has anything to do before something happens outside the controllers.
Quiet ==
    /\ ~micWork /\ ~mbscWork /\ collecting = None
    /\ cache = [mic |-> mic, mbsc |-> mbsc, pull |-> pull, jobs |-> jobs]

\* No wake-up is lost: when both controllers rest, an image without a state has a
\* pull Pod, and one that is to be built or signed, or was not, has the Pod that
\* its present spec calls for, running or failed, or waits for an old one to go.
RestsOnlyWhenWaiting ==
    Quiet =>
        \A i \in Images :
            LET s == mic.spec[i]
                st == mic.states[i]
                j == jobs[<<i, ActionFor(st)>>]
            IN s # None =>
                /\ st = None => \E p \in pull : p.image = i
                /\ (st \in {"NeedsBuilding", "NeedsSigning"}
                    \/ (st = "DoesNotExist" /\ (s.build # 0 \/ s.sign # 0)))
                   => /\ j # None
                      /\ \/ j.deleting \/ j.uid # mbsc.uid
                         \/ /\ j.phase = "Running" \/ st = "DoesNotExist"
                            /\ Dependable => j.hash = HashOf(ActionFor(st), s)

\* KMM checks an image before it builds one: an image the user pushed is never
\* overwritten, whatever is edited or triggered, if pulls do not fail for other
\* reasons.
UserImageKept ==
    [][Dependable => \A i \in Images :
            registry[i] = "user" => registry'[i] = "user"]_vars

CanExist(i) ==
    LET s == mic.spec[i]
    IN /\ s # None
       /\ {s.build, s.sign} \subseteq GoodRevs \cup {0}
       /\ s.build # 0 \/ s.sign # 0 \/ registry[i] # "empty"

\* Every image that is there, or whose sections can be built and signed, is
\* eventually reported as existing for good, also when a failed section was edited.
ImagesConverge ==
    Dependable => <>[](\A i \in Images : CanExist(i) => mic.states[i] = "Exists")

=============================================================================
