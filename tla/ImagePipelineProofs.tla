------------------------- MODULE ImagePipelineProofs -------------------------
(***************************************************************************)
(* Proofs about ImagePipeline for any images, specs and edits: the types,  *)
(* that no image is reported to exist that is not in the registry, that an *)
(* image of the user is not overwritten, that neither controller rests     *)
(* while an image waits for it, and that the only image of a Module is not *)
(* built and signed at the same time.                                      *)
(***************************************************************************)
EXTENDS ImagePipeline, FiniteSetTheorems, TLAPS

(* The registry has the image, or lost it.                                 *)
Present(i) == i \in lost \/ registry[i] # "empty"

(* The image is the user's, and a pull of it does not fail.                *)
Untouched(i) == Dependable /\ registry[i] = "user"

(* What an object, live or cached, may say of the images: success only of  *)
(* an image that is there, and nothing but success of one of the user.     *)
StatesSound(st) ==
    \A i \in Images : /\ st[i] = "Exists" => Present(i)
                      /\ Untouched(i) => st[i] \in {None, "Exists"}

MBSCSound(b) ==
    b # None => \A i \in Images :
                   /\ b.status[i] # None /\ b.status[i].ok => Present(i)
                   /\ Untouched(i) => b.spec[i] = None /\ b.status[i] = None

PullSound(ps) ==
    \A p \in ps : /\ p.phase = "Succeeded" => Present(p.image)
                  /\ Untouched(p.image) => p.phase \in {"Pending", "Succeeded"}

JobsSound(js) ==
    \A k \in Images \X Actions : js[k] # None =>
        /\ js[k].phase = "Succeeded" => Present(k[1])
        /\ ~Untouched(k[1])

Sound ==
    /\ StatesSound(mic.states) /\ StatesSound(cache.mic.states)
    /\ MBSCSound(mbsc) /\ MBSCSound(cache.mbsc)
    /\ PullSound(pull) /\ PullSound(cache.pull)
    /\ JobsSound(jobs) /\ JobsSound(cache.jobs)

JobMap == [Images \X Actions -> Job \cup {None}]
StateMap == [Images -> States \cup {None}]

Cache == [mic : MIC, mbsc : MBSC \cup {None}, pull : SUBSET PullPod, jobs : JobMap]

(* The types, but for the bound on the events.                             *)
Types ==
    /\ mic \in MIC /\ mbsc \in MBSC \cup {None}
    /\ pull \in SUBSET PullPod /\ jobs \in JobMap
    /\ registry \in [Images -> {"empty", "user", "built", "signed"}]
    /\ lost \in SUBSET Images
    /\ cache \in Cache
    /\ collecting \in Nat \cup {None}
    /\ micWork \in BOOLEAN /\ mbscWork \in BOOLEAN
    /\ uids \in Nat /\ faults \in Nat

Bound == Events <= MaxEvents

ImageInv == Types /\ Bound /\ Sound

-----------------------------------------------------------------------------
(* What the operators of the model return                                  *)

(* The constants.                                                          *)
LEMMA Constants ==
    /\ Specs \subseteq [build : Nat, sign : Nat, skip : BOOLEAN]
    /\ MaxEvents \in Nat /\ Dependable \in BOOLEAN
    /\ IsFiniteSet(Images) /\ None \notin States /\ None \notin Specs
BY ConstantsAssumption

(* Build and sign Pods are named by image and action.                      *)
LEMMA JobKey ==
    ASSUME NEW i \in Images, NEW a \in Actions
    PROVE  <<i, a>> \in Images \X Actions /\ <<i, a>>[1] = i /\ <<i, a>>[2] = a
OBVIOUS

(* An empty status.                                                        *)
LEMMA NoStatesType ==
    /\ NoStates \in StateMap /\ StatesSound(NoStates)
    /\ NoStates \in [Images -> [action : Actions, sec : Specs] \cup {None}]
    /\ NoStates \in [Images -> [action : Actions, ok : BOOLEAN] \cup {None}]
BY Constants DEF NoStates, StateMap, StatesSound, States

(* A patch of the states changes nothing else.                             *)
LEMMA PatchSound ==
    ASSUME NEW live \in MIC, NEW obj, NEW states \in StateMap,
           StatesSound(live.states), StatesSound(states)
    PROVE  /\ Patch(live, obj, states) \in MIC
           /\ Patch(live, obj, states).gen = live.gen
           /\ Patch(live, obj, states).edits = live.edits
           /\ Patch(live, obj, states).spec = live.spec
           /\ StatesSound(Patch(live, obj, states).states)
<1> DEFINE m == Patch(live, obj, states)
<1>1. /\ m \in MIC /\ m.gen = live.gen /\ m.edits = live.edits /\ m.spec = live.spec
      /\ m.states = live.states \/ m.states = states
  BY DEF Patch, MIC, StateMap
<1> HIDE DEF m
<1>2. StatesSound(m.states)
  BY <1>1
<1> QED BY <1>1, <1>2 DEF m

(* A pull Pod leads to a state of its image that the Pod justifies.        *)
LEMMA PullStateSound ==
    ASSUME Types, Sound, NEW states \in StatesByPull(cache.mic)
    PROVE  states \in StateMap /\ StatesSound(states)
<1>1. states \in StateMap
  BY DEF StatesByPull, StateMap
<1>2. ASSUME NEW i \in Images
      PROVE  /\ states[i] = "Exists" => Present(i)
             /\ Untouched(i) => states[i] \in {None, "Exists"}
  <2> DEFINE ps == {p \in cache.pull : p.image = i /\ cache.mic.spec[i] # None /\ Finished(p)}
  <2>0. /\ cache.mic.states[i] = "Exists" => Present(i)
        /\ Untouched(i) => cache.mic.states[i] \in {None, "Exists"}
    BY DEF Sound, StatesSound
  <2>1. CASE states[i] = cache.mic.states[i]
    BY <2>0, <2>1
  <2>2. CASE \E p \in ps : states[i] = StateByPull(p, cache.mic.spec[i], cache.mic.states[i])
    <3>1. PICK p \in ps : states[i] = StateByPull(p, cache.mic.spec[i], cache.mic.states[i])
      BY <2>2
    <3>2. /\ p.phase = "Succeeded" => Present(i)
          /\ Untouched(i) => p.phase \in {"Pending", "Succeeded"}
      BY DEF Sound, PullSound
    <3>3. PullStatus(p) \in {"Success", "Failed"}
      BY DEF Finished
    <3>4. PullStatus(p) = "Success" => p.phase = "Succeeded"
      BY DEF PullStatus
    <3>5. p.phase \in {"Pending", "Succeeded"} => PullStatus(p) = "Success"
      BY <3>3 DEF PullStatus
    <3>6. /\ PullStatus(p) = "Success" => states[i] = "Exists"
          /\ PullStatus(p) # "Success" =>
                states[i] \in {"NeedsBuilding", "NeedsSigning", "DoesNotExist", cache.mic.states[i]}
      BY <3>1 DEF StateByPull
    <3> QED BY <2>0, <3>2, <3>3, <3>4, <3>5, <3>6
  <2> QED BY <2>1, <2>2 DEF StatesByPull
<1> QED BY <1>1, <1>2 DEF StatesSound

(* The MIC and the local copy after the two updates of the status.         *)
MICUpdate(r) ==
    /\ r.live \in MIC /\ r.live.gen = mic.gen /\ r.live.edits = mic.edits
    /\ StatesSound(r.live.states)
    /\ r.obj \in MIC /\ StatesSound(r.obj.states)

(* updateStatusByPullPods keeps both sound.                                *)
LEMMA ByPullSound ==
    ASSUME Types, Sound, NEW states \in StatesByPull(cache.mic)
    PROVE  MICUpdate(updateStatusByPullPods(states))
<1> DEFINE m == Patch(mic, cache.mic, states)
<1>1. states \in StateMap /\ StatesSound(states)
  BY PullStateSound
<1>2. m \in MIC /\ m.gen = mic.gen /\ m.edits = mic.edits /\ StatesSound(m.states)
  BY <1>1, PatchSound DEF Types, Sound
<1>3. cache.mic \in MIC
  BY DEF Types, Cache
<1> HIDE DEF m
<1>4. \/ updateStatusByPullPods(states) = [live |-> mic, obj |-> cache.mic]
      \/ updateStatusByPullPods(states) = [live |-> m, obj |-> m]
  BY DEF updateStatusByPullPods, m
<1> QED BY <1>2, <1>3, <1>4 DEF MICUpdate, Types, Sound

(* So does updateStatusByMBSC: only a successful build or sign says that   *)
(* an image exists.                                                        *)
LEMMA ByMBSCSound ==
    ASSUME Types, Sound, NEW r, MICUpdate(r)
    PROVE  MICUpdate(updateStatusByMBSC(r))
<1> DEFINE states == [i \in Images |->
                         StateByMBSC(cache.mbsc.status[i], r.obj.spec[i], r.obj.states[i])]
           m == Patch(r.live, r.obj, states)
<1>0. CASE cache.mbsc = None
  BY <1>0 DEF updateStatusByMBSC
<1>1. CASE cache.mbsc # None
  <2>1. ASSUME NEW i \in Images
        PROVE  /\ states[i] \in States \cup {None}
               /\ states[i] = "Exists" => Present(i)
               /\ Untouched(i) => states[i] \in {None, "Exists"}
    <3> DEFINE b == cache.mbsc.status[i]
               s == r.obj.spec[i]
               old == r.obj.states[i]
    <3>1. /\ old \in States \cup {None}
          /\ old = "Exists" => Present(i)
          /\ Untouched(i) => old \in {None, "Exists"}
      BY DEF MICUpdate, StatesSound, MIC
    <3>2. b # None /\ b.ok => Present(i)
      BY <1>1 DEF Sound, MBSCSound
    <3>3. Untouched(i) => b = None
      BY <1>1 DEF Sound, MBSCSound
    <3>4. states[i] = StateByMBSC(b, s, old)
      OBVIOUS
    <3> HIDE DEF states, b, s, old
    <3>5. \/ (s = None \/ b = None) /\ states[i] = old
          \/ b # None /\ states[i] \in {"DoesNotExist", "NeedsSigning"}
          \/ b # None /\ b.ok /\ states[i] = "Exists"
      BY <3>4 DEF StateByMBSC
    <3> QED BY <3>1, <3>2, <3>3, <3>5 DEF States
  <2>2. states \in StateMap
    <3>1. states = [i \in Images |-> states[i]]
      OBVIOUS
    <3> HIDE DEF states
    <3> QED BY <2>1, <3>1 DEF StateMap
  <2> HIDE DEF states
  <2>3. StatesSound(states)
    BY <2>1 DEF StatesSound
  <2>4. m \in MIC /\ m.gen = r.live.gen /\ m.edits = r.live.edits /\ StatesSound(m.states)
    BY <2>2, <2>3, PatchSound DEF MICUpdate
  <2>5. updateStatusByMBSC(r) = [live |-> m, obj |-> m]
    BY <1>1 DEF updateStatusByMBSC, states
  <2> HIDE DEF m
  <2> QED BY <2>4, <2>5 DEF MICUpdate
<1> QED BY <1>0, <1>1

(* The spec of the MBSC names only images that are to be built or signed.  *)
LEMMA SpecSound ==
    ASSUME Types, NEW obj \in MIC, StatesSound(obj.states),
           NEW spec \in [Images -> [action : Actions, sec : Specs] \cup {None}],
           NEW is \in SUBSET MBSCCalls(obj)
    PROVE  /\ setModuleImageSpec(spec, obj, is)
                 \in [Images -> [action : Actions, sec : Specs] \cup {None}]
           /\ \A i \in Images : Untouched(i) => setModuleImageSpec(spec, obj, is)[i] = spec[i]
<1>1. ASSUME NEW i \in is
      PROVE  /\ i \in Images /\ ~Untouched(i)
             /\ [action |-> ActionFor(obj.states[i]), sec |-> obj.spec[i]]
                     \in [action : Actions, sec : Specs]
  <2>1. /\ i \in Images /\ obj.spec[i] # None
        /\ obj.states[i] \in {"NeedsBuilding", "NeedsSigning", "DoesNotExist"}
    BY DEF MBSCCalls
  <2>2. obj.spec[i] \in Specs
    BY <2>1 DEF MIC
  <2>3. ~Untouched(i)
    BY <2>1, Constants DEF StatesSound, States
  <2> QED BY <2>1, <2>2, <2>3 DEF ActionFor, Actions
<1> QED BY <1>1 DEF setModuleImageSpec

(* What CreateOrPatch may do to the MBSC: write the first one, or entries  *)
(* for the images of its calls on top of the cached ones.                  *)
LEMMA CreateOrPatchKinds ==
    ASSUME NEW obj, NEW failed, CreateOrPatch(obj, MBSCCalls(obj), failed)
    PROVE  \/ UNCHANGED <<mbsc, uids>>
           \/ \E kept \in SUBSET MBSCCalls(obj) :
                 \/ /\ mbsc = None /\ cache.mbsc = None
                    /\ mbsc' = [uid |-> uids + 1, status |-> NoStates,
                                spec |-> setModuleImageSpec(NoStates, obj, kept)]
                    /\ uids' = uids + 1
                 \/ /\ mbsc # None /\ cache.mbsc # None
                    /\ mbsc' = [mbsc EXCEPT !.spec = setModuleImageSpec(cache.mbsc.spec, obj, kept)]
                    /\ uids' = uids
<1> DEFINE is == MBSCCalls(obj)
           changed == IF cache.mbsc = None THEN is
                      ELSE {i \in is : setModuleImageSpec(cache.mbsc.spec, obj, is)[i]
                                           # cache.mbsc.spec[i]}
<1>0. changed \subseteq is
  OBVIOUS
<1>1. CASE changed = {}
  BY <1>1 DEF CreateOrPatch
<1>2. CASE changed # {} /\ (cache.mbsc = None) # (mbsc = None)
  BY <1>2 DEF CreateOrPatch
<1>3. CASE changed # {} /\ (cache.mbsc = None) = (mbsc = None)
  <2>1. PICK kept \in (SUBSET changed) \ {{}} :
            IF mbsc = None
            THEN /\ mbsc' = [uid |-> uids + 1, status |-> NoStates,
                             spec |-> setModuleImageSpec(NoStates, obj, kept)]
                 /\ uids' = uids + 1
            ELSE /\ mbsc' = [mbsc EXCEPT !.spec = setModuleImageSpec(cache.mbsc.spec, obj, kept)]
                 /\ UNCHANGED uids
    BY <1>3 DEF CreateOrPatch
  <2> HIDE DEF changed
  <2>2. kept \in SUBSET is
    BY <1>0
  <2> QED BY <1>3, <2>1, <2>2
<1> QED BY <1>1, <1>2, <1>3

(* CreateOrPatch writes a sound MBSC, or none.                             *)
LEMMA CreateOrPatchSound ==
    ASSUME Types, Sound, NEW obj \in MIC, StatesSound(obj.states), NEW failed \in BOOLEAN,
           CreateOrPatch(obj, MBSCCalls(obj), failed)
    PROVE  /\ mbsc' \in MBSC \cup {None} /\ uids' \in Nat
           /\ mbsc' # mbsc => \A i \in Images :
                 /\ mbsc'.status[i] # None /\ mbsc'.status[i].ok => Present(i)
                 /\ Untouched(i) => mbsc'.spec[i] = None /\ mbsc'.status[i] = None
<1> DEFINE SpecMap == [Images -> [action : Actions, sec : Specs] \cup {None}]
           is == MBSCCalls(obj)
<1>t. mbsc \in MBSC \cup {None} /\ cache.mbsc \in MBSC \cup {None} /\ uids \in Nat
  BY DEF Types, Cache
<1>0. CASE UNCHANGED <<mbsc, uids>>
  BY <1>0, <1>t
<1>1. ASSUME NEW kept \in SUBSET is, mbsc = None,
             mbsc' = [uid |-> uids + 1, status |-> NoStates,
                      spec |-> setModuleImageSpec(NoStates, obj, kept)],
             uids' = uids + 1
      PROVE  /\ mbsc' \in MBSC /\ uids' \in Nat
             /\ \A i \in Images :
                 /\ mbsc'.status[i] # None /\ mbsc'.status[i].ok => Present(i)
                 /\ Untouched(i) => mbsc'.spec[i] = None /\ mbsc'.status[i] = None
  <2> DEFINE sp == setModuleImageSpec(NoStates, obj, kept)
  <2>1. sp \in SpecMap /\ \A i \in Images : Untouched(i) => sp[i] = NoStates[i]
    BY SpecSound, NoStatesType
  <2>2. \A i \in Images : NoStates[i] = None
    BY DEF NoStates
  <2> HIDE DEF sp
  <2> QED BY <1>1, <1>t, <2>1, <2>2, NoStatesType DEF MBSC, sp
<1>2. ASSUME NEW kept \in SUBSET is, mbsc # None, cache.mbsc # None,
             mbsc' = [mbsc EXCEPT !.spec = setModuleImageSpec(cache.mbsc.spec, obj, kept)],
             uids' = uids
      PROVE  /\ mbsc' \in MBSC /\ uids' \in Nat
             /\ \A i \in Images :
                 /\ mbsc'.status[i] # None /\ mbsc'.status[i].ok => Present(i)
                 /\ Untouched(i) => mbsc'.spec[i] = None /\ mbsc'.status[i] = None
  <2> DEFINE sp == setModuleImageSpec(cache.mbsc.spec, obj, kept)
  <2>0. mbsc \in MBSC /\ cache.mbsc \in MBSC
    BY <1>t, <1>2
  <2>1. sp \in SpecMap /\ \A i \in Images : Untouched(i) => sp[i] = cache.mbsc.spec[i]
    <3>1. cache.mbsc.spec \in SpecMap
      BY <2>0 DEF MBSC
    <3> QED BY <3>1, SpecSound
  <2>2. \A i \in Images : Untouched(i) => cache.mbsc.spec[i] = None
    BY <1>2 DEF Sound, MBSCSound
  <2>3. \A i \in Images : /\ mbsc.status[i] # None /\ mbsc.status[i].ok => Present(i)
                          /\ Untouched(i) => mbsc.status[i] = None
    BY <1>2 DEF Sound, MBSCSound
  <2> HIDE DEF sp
  <2>4. mbsc' \in MBSC /\ mbsc'.spec = sp /\ mbsc'.status = mbsc.status
    BY <1>2, <2>0, <2>1 DEF MBSC, sp
  <2> QED BY <1>2, <1>t, <2>1, <2>2, <2>3, <2>4
<1> QED BY <1>0, <1>1, <1>2, CreateOrPatchKinds

-----------------------------------------------------------------------------
(* The world: what was true of an image stays true                         *)

(* An image that is there stays or is lost, and none becomes the user's.   *)
LEMMA SoundKept ==
    ASSUME Types, Types', Sound,
           UNCHANGED <<mic, mbsc, pull, cache>>, JobsSound(jobs)',
           \A i \in Images : (Present(i) => Present(i)') /\ (Untouched(i)' => Untouched(i))
    PROVE  Sound'
<1>1. StatesSound(mic.states)' /\ StatesSound(cache.mic.states)'
  BY DEF Sound, StatesSound
<1>2. MBSCSound(mbsc)' /\ MBSCSound(cache.mbsc)'
  BY DEF Sound, MBSCSound
<1>3. PullSound(pull)' /\ PullSound(cache.pull)'
  <2>1. \A p \in pull : p.image \in Images
    BY DEF Types, PullPod
  <2>2. \A p \in cache.pull : p.image \in Images
    BY DEF Types, Cache, PullPod
  <2> QED BY <2>1, <2>2 DEF Sound, PullSound
<1>4. JobsSound(cache.jobs)'
  BY DEF Sound, JobsSound
<1> QED BY <1>1, <1>2, <1>3, <1>4 DEF Sound

(* A step of a controller: each of the objects it leaves is sound.         *)
LEMMA ControllerStep ==
    ASSUME Sound, UNCHANGED world, UNCHANGED cache,
           StatesSound(mic'.states),
           mbsc' = mbsc \/ MBSCSound(mbsc'),
           PullSound(pull'), JobsSound(jobs')
    PROVE  Sound'
<1>1. lost' = lost /\ registry' = registry
  BY DEF world
<1>2. StatesSound(mic.states)' /\ StatesSound(cache.mic.states)'
  BY <1>1 DEF Sound, StatesSound, Present, Untouched
<1>3. MBSCSound(mbsc)' /\ MBSCSound(cache.mbsc)'
  BY <1>1 DEF Sound, MBSCSound, Present, Untouched
<1>4. PullSound(pull)' /\ PullSound(cache.pull)'
  BY <1>1 DEF Sound, PullSound, Present, Untouched
<1>5. JobsSound(jobs)' /\ JobsSound(cache.jobs)'
  BY <1>1 DEF Sound, JobsSound, Present, Untouched
<1> QED BY <1>2, <1>3, <1>4, <1>5 DEF Sound

(* The numbers the bound is about.                                         *)
LEMMA Numbers ==
    ASSUME Types
    PROVE  /\ mic.gen \in Nat /\ mic.edits \in Nat /\ faults \in Nat
           /\ IsFiniteSet(lost) /\ Cardinality(lost) \in Nat
<1>1. IsFiniteSet(lost)
  BY Constants, FS_Subset DEF Types
<1> QED BY <1>1, FS_CardinalityType DEF Types, MIC

-----------------------------------------------------------------------------
(* One lemma per action                                                    *)

LEMMA InitInv == Init => ImageInv
<1> SUFFICES ASSUME Init PROVE ImageInv
  OBVIOUS
<1>1. /\ mic \in MIC /\ mic.states = NoStates /\ mic.gen = 0 /\ mic.edits = 0
  BY NoStatesType DEF Init, MIC, StateMap
<1>2. jobs \in JobMap /\ \A k \in Images \X Actions : jobs[k] = None
  BY DEF Init, JobMap
<1>3. cache \in Cache /\ cache.mic = mic /\ cache.mbsc = None /\ cache.pull = {} /\ cache.jobs = jobs
  BY <1>1, <1>2 DEF Init, Cache
<1>4. Types
  <2>1. /\ mbsc = None /\ pull = {} /\ lost = {} /\ collecting = None /\ uids = 0 /\ faults = 0
        /\ micWork = TRUE /\ mbscWork = FALSE
    BY DEF Init
  <2>2. registry \in [Images -> {"empty", "user", "built", "signed"}]
    BY DEF Init
  <2> QED BY <1>1, <1>2, <1>3, <2>1, <2>2 DEF Types
<1>5. Bound
  BY <1>1, Constants, FS_EmptySet DEF Init, Bound, Events
<1>6. Sound
  BY <1>1, <1>2, <1>3, NoStatesType DEF Init, Sound, MBSCSound, PullSound, JobsSound
<1> QED BY <1>4, <1>5, <1>6 DEF ImageInv

LEMMA HandleMICStep ==
    ASSUME ImageInv, NEW i \in Images, NEW s \in Specs \cup {None}, handleMIC(i, s)
    PROVE  ImageInv'
<1> USE DEF ImageInv
<1>1. /\ mic' \in MIC /\ mic'.gen = mic.gen /\ mic'.edits = mic.edits + 1
      /\ mic'.states = mic.states
  <2>1. /\ mic.spec \in [Images -> Specs \cup {None}] /\ mic.edits \in Nat /\ mic.gen \in Nat
        /\ mic.states \in [Images -> States \cup {None}] /\ mic.statusGen \in Nat
    BY DEF Types, MIC
  <2> DEFINE spec == [mic.spec EXCEPT ![i] = s]
  <2>2. mic' = [mic EXCEPT !.spec = spec, !.edits = mic.edits + 1]
    BY <2>1 DEF handleMIC, Types, MIC
  <2>3. spec \in [Images -> Specs \cup {None}]
    BY <2>1
  <2> HIDE DEF spec
  <2>4. mic' = [spec |-> spec, edits |-> mic.edits + 1, gen |-> mic.gen, states |-> mic.states,
                statusGen |-> mic.statusGen]
    BY <2>2 DEF Types, MIC
  <2> QED BY <2>1, <2>3, <2>4 DEF MIC
<1>2. Types'
  BY <1>1 DEF handleMIC, Types, world
<1>3. Bound'
  BY <1>1, Numbers, Constants DEF handleMIC, Bound, Events, world
<1>4. UNCHANGED world /\ UNCHANGED cache /\ mbsc' = mbsc /\ pull' = pull /\ jobs' = jobs
  BY DEF handleMIC
<1>5. Sound'
  BY <1>1, <1>4, ControllerStep DEF Sound
<1> QED BY <1>2, <1>3, <1>5

LEMMA ChangeTriggerStep ==
    ASSUME ImageInv, ChangeTrigger
    PROVE  ImageInv'
<1> USE DEF ImageInv
<1>1. /\ mic' \in MIC /\ mic'.gen = mic.gen + 1 /\ mic'.edits = mic.edits /\ mic'.states = mic.states
  BY DEF ChangeTrigger, Types, MIC
<1>2. Types'
  BY <1>1 DEF ChangeTrigger, Types, world
<1>3. Bound'
  BY <1>1, Numbers, Constants DEF ChangeTrigger, Bound, Events, world
<1>4. UNCHANGED world /\ UNCHANGED cache /\ mbsc' = mbsc /\ pull' = pull /\ jobs' = jobs
  BY DEF ChangeTrigger
<1>5. Sound'
  BY <1>1, <1>4, ControllerStep DEF Sound
<1> QED BY <1>2, <1>3, <1>5

LEMMA HandleTriggerStep ==
    ASSUME ImageInv, NEW fails \in BOOLEAN, handleTrigger(fails)
    PROVE  ImageInv'
<1> USE DEF ImageInv
<1> DEFINE m == Patch(mic, cache.mic, NoStates)
<1>1. m \in MIC /\ m.gen = mic.gen /\ m.edits = mic.edits /\ StatesSound(m.states)
  BY PatchSound, NoStatesType DEF Types, Sound
<1>2. /\ mic' \in MIC /\ mic'.gen = mic.gen /\ mic'.edits = mic.edits /\ StatesSound(mic'.states)
      /\ \/ faults' = faults
         \/ Events < MaxEvents /\ faults' = faults + 1
  <2>1. CASE fails
    BY <2>1 DEF handleTrigger, Types, Sound
  <2>2. CASE ~fails
    <3>1. mic' = [m EXCEPT !.statusGen = cache.mic.gen] /\ faults' = faults
      BY <2>2 DEF handleTrigger
    <3>2. cache.mic.gen \in Nat
      BY DEF Types, Cache, MIC
    <3> HIDE DEF m
    <3>3. mic' \in MIC /\ mic'.gen = m.gen /\ mic'.edits = m.edits /\ mic'.states = m.states
      BY <1>1, <3>1, <3>2 DEF MIC
    <3> QED BY <1>1, <3>1, <3>3
  <2> QED BY <2>1, <2>2
<1>3. /\ UNCHANGED world /\ UNCHANGED cache /\ mbsc' = None /\ pull' = pull /\ jobs' = jobs
      /\ UNCHANGED <<micWork, mbscWork, collecting, uids, registry, lost>>
  BY DEF handleTrigger, world
<1>4. Types'
  BY <1>2, <1>3 DEF Types
<1>5. Bound'
  BY <1>2, <1>3, Numbers, Constants DEF Bound, Events
<1>6. MBSCSound(mbsc')
  BY <1>3 DEF MBSCSound
<1>7. Sound'
  BY <1>2, <1>3, <1>6, ControllerStep DEF Sound
<1> QED BY <1>4, <1>5, <1>7

(* The pull Pods a Reconcile creates have yet to try.                      *)
LEMMA CreatedSound ==
    ASSUME Types, NEW obj \in MIC, NEW i \in PullCalls(obj), FreeNames(i) # {}
    PROVE  /\ CreatePullPod(i, obj.spec[i]) \in PullPod
           /\ CreatePullPod(i, obj.spec[i]).phase = "Pending"
<1>1. i \in Images /\ obj.spec[i] \in Specs
  BY DEF PullCalls, MIC
<1>2. (CHOOSE n \in FreeNames(i) : TRUE) \in PullNames
  BY DEF FreeNames
<1>3. (obj.spec[i].build # 0 \/ obj.spec[i].sign # 0 \/ obj.spec[i].skip) \in BOOLEAN
  BY <1>1, Constants
<1> QED BY <1>1, <1>2, <1>3 DEF CreatePullPod, PullPod

LEMMA MICReconcileStep ==
    ASSUME ImageInv, MICReconcile
    PROVE  ImageInv'
<1> USE DEF ImageInv
<1>1. PICK states \in StatesByPull(cache.mic), failed \in BOOLEAN :
          LET r == updateStatusByMBSC(updateStatusByPullPods(states))
              creates == {i \in PullCalls(r.obj) : FreeNames(i) # {}}
          IN /\ mic' = r.live
             /\ pull' = {p \in pull : ~Named(p, PodsToDelete)}
                        \cup {CreatePullPod(i, r.obj.spec[i]) : i \in creates}
             /\ CreateOrPatch(r.obj, MBSCCalls(r.obj), failed)
             /\ micWork' = (failed \/ creates # PullCalls(r.obj))
  BY DEF MICReconcile
<1> DEFINE r == updateStatusByMBSC(updateStatusByPullPods(states))
           creates == {i \in PullCalls(r.obj) : FreeNames(i) # {}}
<1>2. MICUpdate(r)
  BY ByPullSound, ByMBSCSound
<1>3. /\ mic' = r.live
      /\ pull' = {p \in pull : ~Named(p, PodsToDelete)}
                 \cup {CreatePullPod(i, r.obj.spec[i]) : i \in creates}
      /\ CreateOrPatch(r.obj, MBSCCalls(r.obj), failed)
      /\ micWork' \in BOOLEAN
  BY <1>1
<1> HIDE DEF r
<1>4. mic' \in MIC /\ mic'.gen = mic.gen /\ mic'.edits = mic.edits /\ StatesSound(mic'.states)
  BY <1>2, <1>3 DEF MICUpdate
<1>5. r.obj \in MIC /\ StatesSound(r.obj.states)
  BY <1>2 DEF MICUpdate
<1>6. /\ mbsc' \in MBSC \cup {None} /\ uids' \in Nat
      /\ mbsc' # mbsc => \A i \in Images :
            /\ mbsc'.status[i] # None /\ mbsc'.status[i].ok => Present(i)
            /\ Untouched(i) => mbsc'.spec[i] = None /\ mbsc'.status[i] = None
  BY <1>3, <1>5, CreateOrPatchSound
<1>7. mbsc' = mbsc \/ MBSCSound(mbsc')
  BY <1>6 DEF MBSCSound
<1>8. \A i \in creates : /\ CreatePullPod(i, r.obj.spec[i]) \in PullPod
                         /\ CreatePullPod(i, r.obj.spec[i]).phase = "Pending"
  BY <1>5, CreatedSound
<1>9. \A p \in pull' : p \in pull \/ (p \in PullPod /\ p.phase = "Pending")
  <2> HIDE DEF creates
  <2> QED BY <1>3, <1>8
<1>10. pull' \in SUBSET PullPod /\ PullSound(pull')
  BY <1>9 DEF Types, Sound, PullSound
<1>11. /\ UNCHANGED world /\ UNCHANGED cache /\ jobs' = jobs
       /\ UNCHANGED <<mbscWork, collecting, faults, registry, lost>>
  BY DEF MICReconcile, world
<1>12. Types'
  BY <1>3, <1>4, <1>6, <1>10, <1>11 DEF Types
<1>13. Bound'
  BY <1>4, <1>11 DEF Bound, Events
<1>14. Sound'
  BY <1>4, <1>7, <1>10, <1>11, ControllerStep DEF Sound
<1> QED BY <1>12, <1>13, <1>14

LEMMA MICStopsStep ==
    ASSUME ImageInv, MICStops
    PROVE  ImageInv'
<1> USE DEF ImageInv
<1>1. PICK states \in StatesByPull(cache.mic), deleted \in SUBSET PodsToDelete :
          LET r == updateStatusByPullPods(states)
          IN /\ mic' \in IF deleted = PodsToDelete
                         THEN {r.live, updateStatusByMBSC(r).live} ELSE {r.live}
             /\ pull' = {p \in pull : ~Named(p, deleted)}
  BY DEF MICStops
<1> DEFINE r == updateStatusByPullPods(states)
<1>2. MICUpdate(r) /\ MICUpdate(updateStatusByMBSC(r))
  BY ByPullSound, ByMBSCSound
<1>3. (mic' = r.live \/ mic' = updateStatusByMBSC(r).live) /\ pull' \subseteq pull
  BY <1>1
<1> HIDE DEF r
<1>4. mic' \in MIC /\ mic'.gen = mic.gen /\ mic'.edits = mic.edits /\ StatesSound(mic'.states)
  BY <1>2, <1>3 DEF MICUpdate
<1>5. pull' \in SUBSET PullPod /\ PullSound(pull')
  BY <1>3 DEF Types, Sound, PullSound
<1>6. /\ UNCHANGED world /\ UNCHANGED cache /\ jobs' = jobs /\ mbsc' = mbsc
      /\ UNCHANGED <<micWork, mbscWork, collecting, uids, registry, lost>>
      /\ faults' = faults + 1 /\ Events < MaxEvents
  BY DEF MICStops, world
<1>7. Types'
  BY <1>4, <1>5, <1>6 DEF Types
<1>8. Bound'
  BY <1>4, <1>6, Numbers, Constants DEF Bound, Events
<1>9. Sound'
  BY <1>4, <1>5, <1>6, ControllerStep DEF Sound
<1> QED BY <1>7, <1>8, <1>9

(* The MBSC after updateStatus: only a Pod that succeeded makes a success. *)
LEMMA UpdateStatusSound ==
    ASSUME Types, Sound, mbsc # None, cache.mbsc # None
    PROVE  /\ updateStatus \in MBSC /\ MBSCSound(updateStatus)
           /\ updateStatus.uid = mbsc.uid /\ updateStatus.spec = mbsc.spec
           /\ \A i \in Images : Untouched(i) => updateStatus.spec[i] = None
<1> DEFINE status == [i \in Images |-> StatusByJob(cache.mbsc, i)]
<1>0. mbsc \in MBSC /\ cache.mbsc \in MBSC /\ cache.jobs \in JobMap
  BY DEF Types, Cache
<1>1. ASSUME NEW i \in Images
      PROVE  /\ status[i] \in [action : Actions, ok : BOOLEAN] \cup {None}
             /\ status[i] # None /\ status[i].ok => Present(i)
             /\ Untouched(i) => status[i] = None
  <2> DEFINE e == cache.mbsc.spec[i]
             j == IF e = None THEN None ELSE OwnedJob(cache.mbsc.uid, i, e.action)
             old == cache.mbsc.status[i]
  <2>1. /\ old \in [action : Actions, ok : BOOLEAN] \cup {None}
        /\ old # None /\ old.ok => Present(i)
        /\ Untouched(i) => e = None /\ old = None
        /\ e \in [action : Actions, sec : Specs] \cup {None}
    BY <1>0 DEF MBSC, Sound, MBSCSound
  <2>2. j # None => e # None /\ e.action \in Actions /\ j = cache.jobs[<<i, e.action>>]
    BY <2>1 DEF OwnedJob
  <2>3. j # None /\ j.phase = "Succeeded" => Present(i)
    BY <2>2, JobKey DEF Sound, JobsSound
  <2>4. status[i] = IF j = None \/ j.phase = "Running" THEN old
                    ELSE [action |-> e.action, ok |-> j.phase = "Succeeded"]
    BY DEF StatusByJob
  <2> HIDE DEF status, e, j, old
  <2>5. CASE j = None \/ j.phase = "Running"
    <3>1. status[i] = old
      BY <2>4, <2>5
    <3> QED BY <2>1, <3>1
  <2>6. CASE j # None /\ j.phase # "Running"
    <3>1. status[i] = [action |-> e.action, ok |-> j.phase = "Succeeded"]
      BY <2>4, <2>6
    <3>2. ~Untouched(i)
      BY <2>1, <2>2, <2>6
    <3>3. CASE j.phase = "Succeeded"
      <4>1. status[i] = [action |-> e.action, ok |-> TRUE]
        BY <3>1, <3>3
      <4> QED BY <2>2, <2>3, <2>6, <3>2, <3>3, <4>1
    <3>4. CASE j.phase # "Succeeded"
      <4>1. status[i] = [action |-> e.action, ok |-> FALSE]
        BY <3>1, <3>4
      <4> QED BY <2>2, <2>6, <3>2, <4>1
    <3> QED BY <3>3, <3>4
  <2> QED BY <2>5, <2>6
<1>2. status \in [Images -> [action : Actions, ok : BOOLEAN] \cup {None}]
  BY <1>1
<1> DEFINE st == IF status = cache.mbsc.status THEN mbsc.status ELSE status
<1>3. updateStatus = [mbsc EXCEPT !.status = st]
  BY DEF updateStatus
<1>4. \A i \in Images : /\ mbsc.status[i] # None /\ mbsc.status[i].ok => Present(i)
                        /\ Untouched(i) => mbsc.status[i] = None /\ mbsc.spec[i] = None
  BY DEF Sound, MBSCSound
<1>5. /\ st \in [Images -> [action : Actions, ok : BOOLEAN] \cup {None}]
      /\ \A i \in Images : /\ st[i] # None /\ st[i].ok => Present(i)
                           /\ Untouched(i) => st[i] = None
  <2> HIDE DEF status
  <2>1. mbsc.status \in [Images -> [action : Actions, ok : BOOLEAN] \cup {None}]
    BY <1>0 DEF MBSC
  <2> QED BY <1>1, <1>2, <1>4, <2>1
<1> HIDE DEF st
<1>6. /\ updateStatus \in MBSC /\ updateStatus.uid = mbsc.uid /\ updateStatus.spec = mbsc.spec
      /\ updateStatus.status = st
  BY <1>0, <1>3, <1>5 DEF MBSC
<1>7. MBSCSound(updateStatus)
  BY <1>4, <1>5, <1>6 DEF MBSCSound
<1> QED BY <1>4, <1>6, <1>7

(* Sync makes Pods only for the images of the MBSC's spec.                 *)
LEMMA SyncSound ==
    ASSUME Types, Sound, NEW obj \in MBSC,
           \A i \in Images : Untouched(i) => obj.spec[i] = None,
           NEW is \in SUBSET SyncCalls(obj)
    PROVE  SyncAll(obj, is) \in JobMap /\ JobsSound(SyncAll(obj, is))
<1> DEFINE js == SyncAll(obj, is)
<1>0. jobs \in JobMap /\ JobsSound(jobs)
  BY DEF Types, Sound
<1>1. ASSUME NEW k \in Images \X Actions
      PROVE  /\ js[k] \in Job \cup {None}
             /\ js[k] # None => /\ js[k].phase = "Succeeded" => Present(k[1])
                                /\ ~Untouched(k[1])
  <2>0. jobs[k] \in Job \cup {None} /\ k[1] \in Images /\ k[2] \in Actions
    BY <1>0 DEF JobMap
  <2>1. CASE js[k] = jobs[k]
    BY <2>0, <2>1, <1>0 DEF JobsSound
  <2>2. CASE /\ k[1] \in is /\ obj.spec[k[1]].action = k[2]
             /\ js[k] = Sync(obj, k)
    <3> DEFINE e == obj.spec[k[1]]
               hash == HashOf(k[2], e.sec)
    <3>1. e # None /\ e \in [action : Actions, sec : Specs] /\ ~Untouched(k[1])
      BY <2>0, <2>2 DEF SyncCalls, MBSC
    <3>2. hash \in Hashes
      <4>1. e.sec \in Specs /\ e.sec.build \in Nat
        BY <3>1, Constants
      <4>2. Section(k[2], e.sec) \in Revs
        BY <4>1 DEF Section, Revs
      <4> QED BY <4>2 DEF HashOf, Hashes
    <3>3. \/ js[k] = [uid |-> obj.uid, hash |-> hash, phase |-> "Running", deleting |-> FALSE]
          \/ js[k] = [jobs[k] EXCEPT !.deleting = TRUE] /\ jobs[k] # None
          \/ js[k] = jobs[k]
      BY <2>2 DEF Sync
    <3> HIDE DEF hash, js
    <3>4. CASE js[k] = [uid |-> obj.uid, hash |-> hash, phase |-> "Running", deleting |-> FALSE]
      BY <3>1, <3>2, <3>4 DEF Job, MBSC
    <3>5. CASE js[k] = [jobs[k] EXCEPT !.deleting = TRUE] /\ jobs[k] # None
      <4>1. js[k] \in Job /\ js[k].phase = jobs[k].phase
        BY <2>0, <3>5 DEF Job
      <4> QED BY <4>1, <3>1, <3>5, <1>0 DEF JobsSound
    <3> QED BY <2>1, <3>3, <3>4, <3>5
  <2> QED BY <2>1, <2>2 DEF SyncAll
<1>2. js = [k \in Images \X Actions |-> js[k]]
  BY DEF SyncAll
<1> HIDE DEF js
<1>3. js \in JobMap
  BY <1>1, <1>2 DEF JobMap
<1>4. JobsSound(js)
  BY <1>1 DEF JobsSound
<1> QED BY <1>3, <1>4 DEF js

LEMMA MBSCReconcileStep ==
    ASSUME ImageInv, MBSCReconcile
    PROVE  ImageInv'
<1> USE DEF ImageInv
<1>1. /\ mbsc # None /\ cache.mbsc # None /\ mbsc' = updateStatus
      /\ UNCHANGED world /\ UNCHANGED cache /\ mic' = mic /\ pull' = pull
      /\ UNCHANGED <<micWork, uids, registry, lost>>
  BY DEF MBSCReconcile, world
<1>2. /\ mbsc' \in MBSC /\ MBSCSound(updateStatus)
      /\ \A i \in Images : Untouched(i) => mbsc'.spec[i] = None
  BY <1>1, UpdateStatusSound
<1>3. MBSCSound(mbsc')
  BY <1>1, <1>2
<1>4. \E is \in SUBSET SyncCalls(mbsc') : jobs' = SyncAll(mbsc', is)
  BY DEF MBSCReconcile
<1>5. /\ mbscWork' \in BOOLEAN /\ collecting' \in Nat \cup {None}
      /\ faults' = faults \/ (Events < MaxEvents /\ faults' = faults + 1)
  BY DEF MBSCReconcile, Types, MBSC
<1>6. PICK b : b = mbsc'
  OBVIOUS
<1>7. PICK is \in SUBSET SyncCalls(b) : jobs' = SyncAll(b, is)
  BY <1>4, <1>6
<1>8. jobs' \in JobMap /\ JobsSound(jobs')
  <2>1. SyncAll(b, is) \in JobMap /\ JobsSound(SyncAll(b, is))
    BY <1>2, <1>6, SyncSound
  <2> QED BY <1>7, <2>1
<1>9. Types'
  BY <1>1, <1>2, <1>5, <1>8 DEF Types
<1>10. Bound'
  BY <1>1, <1>5, Numbers, Constants DEF Bound, Events
<1>11. Sound'
  BY <1>1, <1>3, <1>8, ControllerStep DEF Sound
<1> QED BY <1>9, <1>10, <1>11

LEMMA MBSCMissingStep ==
    ASSUME ImageInv, MBSCMissing
    PROVE  ImageInv'
<1> USE DEF ImageInv
<1>1. /\ UNCHANGED world /\ UNCHANGED cache /\ UNCHANGED <<mic, mbsc, pull, jobs>>
      /\ UNCHANGED <<micWork, collecting, uids, faults, registry, lost>>
      /\ mbscWork' = FALSE
  BY DEF MBSCMissing, world, objects
<1>2. Types'
  BY <1>1 DEF Types
<1>3. Bound'
  BY <1>1 DEF Bound, Events
<1>4. Sound'
  BY <1>1, ControllerStep DEF Sound
<1> QED BY <1>2, <1>3, <1>4

(* A step that only asks for the deletion of build and sign Pods.          *)
LEMMA DeletingSound ==
    ASSUME Types, Sound, NEW js, js = [k \in Images \X Actions |-> js[k]],
           \A k \in Images \X Actions :
               \/ js[k] = jobs[k]
               \/ jobs[k] # None /\ js[k] = [jobs[k] EXCEPT !.deleting = TRUE]
    PROVE  js \in JobMap /\ JobsSound(js)
<1>0. jobs \in JobMap /\ JobsSound(jobs)
  BY DEF Types, Sound
<1>1. ASSUME NEW k \in Images \X Actions
      PROVE  /\ js[k] \in Job \cup {None}
             /\ js[k] # None => /\ js[k].phase = "Succeeded" => Present(k[1])
                                /\ ~Untouched(k[1])
  <2>0. jobs[k] \in Job \cup {None}
    BY <1>0 DEF JobMap
  <2>1. CASE js[k] = jobs[k]
    BY <2>0, <2>1, <1>0 DEF JobsSound
  <2>2. CASE jobs[k] # None /\ js[k] = [jobs[k] EXCEPT !.deleting = TRUE]
    <3>1. js[k] \in Job /\ js[k].phase = jobs[k].phase
      BY <2>0, <2>2 DEF Job
    <3> QED BY <3>1, <2>2, <1>0 DEF JobsSound
  <2> QED BY <2>1, <2>2
<1>2. js \in JobMap
  BY <1>1 DEF JobMap
<1>3. JobsSound(js)
  BY <1>1 DEF JobsSound
<1> QED BY <1>2, <1>3

LEMMA GarbageCollectStep ==
    ASSUME ImageInv, NEW fails \in BOOLEAN, garbageCollect(fails)
    PROVE  ImageInv'
<1> USE DEF ImageInv
<1>1. /\ UNCHANGED world /\ UNCHANGED cache /\ UNCHANGED <<mic, mbsc, pull>>
      /\ UNCHANGED <<micWork, uids, registry, lost>>
      /\ collecting' = None
      /\ \/ faults' = faults
         \/ Events < MaxEvents /\ faults' = faults + 1
      /\ mbscWork' \in BOOLEAN
  BY DEF garbageCollect, world, Types
<1>2. /\ jobs' = [k \in Images \X Actions |-> jobs'[k]]
      /\ \A k \in Images \X Actions :
               \/ jobs'[k] = jobs[k]
               \/ jobs[k] # None /\ jobs'[k] = [jobs[k] EXCEPT !.deleting = TRUE]
  BY DEF garbageCollect
<1>3. PICK js : js = jobs'
  OBVIOUS
<1>4. js \in JobMap /\ JobsSound(js)
  BY <1>2, <1>3, DeletingSound
<1>5. Types'
  BY <1>1, <1>3, <1>4 DEF Types
<1>6. Bound'
  BY <1>1, Numbers, Constants DEF Bound, Events
<1>7. Sound'
  BY <1>1, <1>3, <1>4, ControllerStep DEF Sound
<1> QED BY <1>5, <1>6, <1>7

(* A cached object is as sound as the live one.                            *)
LEMMA DeliverStep ==
    ASSUME ImageInv, DeliverMIC \/ DeliverMBSC \/ DeliverPods
    PROVE  ImageInv'
<1> USE DEF ImageInv
<1>1. /\ UNCHANGED <<mic, mbsc, pull, jobs>> /\ UNCHANGED <<registry, lost>>
      /\ UNCHANGED <<collecting, uids, faults>>
      /\ micWork' \in BOOLEAN /\ mbscWork' \in BOOLEAN
  BY DEF DeliverMIC, DeliverMBSC, DeliverPods, objects, world, Types
<1>2. /\ cache' \in Cache
      /\ cache'.mic \in {cache.mic, mic} /\ cache'.mbsc \in {cache.mbsc, mbsc}
      /\ cache'.pull \in {cache.pull, pull} /\ cache'.jobs \in {cache.jobs, jobs}
  <2>1. CASE DeliverMIC
    BY <2>1 DEF DeliverMIC, Types, Cache
  <2>2. CASE DeliverMBSC
    BY <2>2 DEF DeliverMBSC, Types, Cache
  <2>3. CASE DeliverPods
    BY <2>3 DEF DeliverPods, Types, Cache
  <2> QED BY <2>1, <2>2, <2>3
<1>3. Types'
  BY <1>1, <1>2 DEF Types
<1>4. Bound'
  BY <1>1 DEF Bound, Events
<1>5. Sound'
  <2>1. StatesSound(mic.states)' /\ StatesSound(cache.mic.states)'
    BY <1>1, <1>2 DEF Sound, StatesSound, Present, Untouched
  <2>2. MBSCSound(mbsc)' /\ MBSCSound(cache.mbsc)'
    BY <1>1, <1>2 DEF Sound, MBSCSound, Present, Untouched
  <2>3. PullSound(pull)' /\ PullSound(cache.pull)'
    BY <1>1, <1>2 DEF Sound, PullSound, Present, Untouched
  <2>4. JobsSound(jobs)' /\ JobsSound(cache.jobs)'
    BY <1>1, <1>2 DEF Sound, JobsSound, Present, Untouched
  <2> QED BY <2>1, <2>2, <2>3, <2>4 DEF Sound
<1> QED BY <1>3, <1>4, <1>5

(* A pull succeeds only if the image is there, and that of a dependable    *)
(* registry fails only if it is not.                                       *)
LEMMA PullStep ==
    ASSUME ImageInv, NEW p \in pull, PullEnds(p) \/ PullBreaks(p)
    PROVE  ImageInv'
<1> USE DEF ImageInv
<1>1. /\ UNCHANGED world /\ UNCHANGED cache /\ UNCHANGED <<mic, mbsc, jobs>>
      /\ UNCHANGED <<micWork, mbscWork, collecting, uids, faults, registry, lost>>
  BY DEF PullEnds, PullBreaks, world, controllers
<1>2. p \in PullPod /\ p.image \in Images
  BY DEF Types, PullPod
<1>3. PICK phase \in {"Succeeded", "BackOff", "Broken"} :
          /\ pull' = (pull \ {p}) \cup {[p EXCEPT !.phase = phase]}
          /\ phase = "Succeeded" => registry[p.image] # "empty"
          /\ phase # "Succeeded" => registry[p.image] = "empty" \/ ~Dependable
  BY DEF PullEnds, PullBreaks, SetPhase
<1> DEFINE q == [p EXCEPT !.phase = phase]
<1>4. q \in PullPod /\ q.phase = phase /\ q.image = p.image
  BY <1>2 DEF PullPod
<1> HIDE DEF q
<1>5. pull' \in SUBSET PullPod
  BY <1>3, <1>4 DEF q, Types
<1>6. /\ q.phase = "Succeeded" => Present(q.image)
      /\ Untouched(q.image) => q.phase \in {"Pending", "Succeeded"}
  BY <1>3, <1>4 DEF Present, Untouched
<1>7. PullSound(pull')
  BY <1>3, <1>6 DEF PullSound, q, Sound
<1>8. Types'
  BY <1>1, <1>5 DEF Types
<1>9. Bound'
  BY <1>1 DEF Bound, Events
<1>10. Sound'
  BY <1>1, <1>7, ControllerStep DEF Sound
<1> QED BY <1>8, <1>9, <1>10

(* The build and sign Pods.                                                *)
LEMMA JobStep ==
    ASSUME ImageInv, NEW i \in Images, NEW a \in Actions,
           JobSucceeds(i, a) \/ JobFails(i, a) \/ JobGone(i, a) \/ OwnerGone(i, a)
    PROVE  ImageInv' /\ (Dependable /\ registry[i] = "user" => registry' = registry)
<1> USE DEF ImageInv
<1> DEFINE k == <<i, a>>
           j == jobs[k]
<1>0. /\ k \in Images \X Actions /\ k[1] = i
      /\ jobs \in JobMap /\ JobsSound(jobs) /\ j # None /\ j \in Job
  BY JobKey DEF Types, Sound, JobMap, JobSucceeds, JobFails, JobGone, OwnerGone
<1>1. /\ UNCHANGED cache /\ UNCHANGED <<mic, mbsc, pull>>
      /\ UNCHANGED <<micWork, mbscWork, collecting, uids, faults, lost>>
  BY DEF JobSucceeds, JobFails, JobGone, OwnerGone, world, controllers
<1>2. ~Untouched(i)
  BY <1>0 DEF JobsSound
<1>3. \/ /\ jobs' = [jobs EXCEPT ![k].phase = "Succeeded"]
         /\ \E v \in {"built", "signed"} : registry' = [registry EXCEPT ![i] = v]
      \/ jobs' = [jobs EXCEPT ![k].phase = "Failed"] /\ registry' = registry
      \/ jobs' = [jobs EXCEPT ![k] = None] /\ registry' = registry
      \/ jobs' = [jobs EXCEPT ![k].deleting = TRUE] /\ registry' = registry
  BY DEF JobSucceeds, JobFails, JobGone, OwnerGone, world
<1> HIDE DEF k
<1>4. /\ \A n \in Images \X Actions : n # k => jobs'[n] = jobs[n]
      /\ jobs' = [n \in Images \X Actions |-> jobs'[n]]
  BY <1>0, <1>3 DEF JobMap
<1>5. /\ jobs'[k] \in Job \cup {None}
      /\ jobs'[k] # None /\ jobs'[k].phase = "Succeeded" =>
            j.phase = "Succeeded" \/ registry'[i] \in {"built", "signed"}
  <2>1. registry \in [Images -> {"empty", "user", "built", "signed"}]
    BY DEF Types
  <2>2. CASE /\ jobs' = [jobs EXCEPT ![k].phase = "Succeeded"]
             /\ \E v \in {"built", "signed"} : registry' = [registry EXCEPT ![i] = v]
    <3>1. jobs'[k] = [j EXCEPT !.phase = "Succeeded"]
      BY <2>2, <1>0 DEF JobMap
    <3>2. registry'[i] \in {"built", "signed"}
      BY <2>1, <2>2
    <3> QED BY <3>1, <3>2, <1>0 DEF Job
  <2>3. CASE jobs' = [jobs EXCEPT ![k].phase = "Failed"]
    <3>1. jobs'[k] = [j EXCEPT !.phase = "Failed"]
      BY <2>3, <1>0 DEF JobMap
    <3> HIDE DEF j
    <3>2. jobs'[k] \in Job /\ jobs'[k].phase = "Failed"
      BY <3>1, <1>0 DEF Job
    <3> QED BY <3>2
  <2>4. CASE jobs' = [jobs EXCEPT ![k] = None]
    BY <2>4, <1>0 DEF JobMap
  <2>5. CASE jobs' = [jobs EXCEPT ![k].deleting = TRUE]
    <3>1. jobs'[k] = [j EXCEPT !.deleting = TRUE]
      BY <2>5, <1>0 DEF JobMap
    <3> HIDE DEF j
    <3>2. jobs'[k] \in Job /\ jobs'[k].phase = j.phase
      BY <3>1, <1>0 DEF Job
    <3> QED BY <3>2
  <2> QED BY <1>3, <2>2, <2>3, <2>4, <2>5
<1>6. /\ registry' \in [Images -> {"empty", "user", "built", "signed"}]
      /\ \A n \in Images : /\ n # i => registry'[n] = registry[n]
                           /\ registry'[n] = registry[n] \/ registry'[n] \in {"built", "signed"}
  BY <1>3 DEF Types
<1>7. \A n \in Images : (Present(n) => Present(n)') /\ (Untouched(n)' => Untouched(n))
  BY <1>1, <1>6 DEF Present, Untouched
<1>8. jobs' \in JobMap
  BY <1>0, <1>4, <1>5 DEF JobMap
<1>9. Types'
  BY <1>1, <1>6, <1>8 DEF Types
<1>10. JobsSound(jobs)'
  <2> SUFFICES ASSUME NEW n \in Images \X Actions, jobs'[n] # None
               PROVE  /\ jobs'[n].phase = "Succeeded" => Present(n[1])'
                      /\ ~Untouched(n[1])'
    BY DEF JobsSound
  <2>0. n[1] \in Images
    OBVIOUS
  <2>1. CASE n # k
    BY <2>0, <2>1, <1>0, <1>4, <1>7 DEF JobsSound
  <2>2. CASE n = k
    <3>1. j.phase = "Succeeded" => Present(i)
      BY <1>0 DEF JobsSound
    <3>2. registry'[i] \in {"built", "signed"} => Present(i)'
      BY DEF Present
    <3> QED BY <2>2, <3>1, <3>2, <1>0, <1>2, <1>5, <1>7
  <2> QED BY <2>1, <2>2
<1>11. Bound'
  BY <1>1 DEF Bound, Events
<1>12. Sound'
  BY <1>1, <1>7, <1>9, <1>10, SoundKept
<1> QED BY <1>2, <1>9, <1>11, <1>12 DEF Untouched

(* A lost image is remembered.                                             *)
LEMMA LoseImageStep ==
    ASSUME ImageInv, NEW i \in Images, LoseImage(i)
    PROVE  ImageInv'
<1> USE DEF ImageInv
<1>1. /\ UNCHANGED cache /\ UNCHANGED <<mic, mbsc, pull, jobs>>
      /\ UNCHANGED <<micWork, mbscWork, collecting, uids, faults>>
      /\ registry' = [registry EXCEPT ![i] = "empty"] /\ lost' = lost \cup {i}
      /\ Events < MaxEvents
  BY DEF LoseImage, controllers
<1>2. /\ registry' \in [Images -> {"empty", "user", "built", "signed"}]
      /\ \A n \in Images : n # i => registry'[n] = registry[n]
      /\ registry'[i] = "empty"
  BY <1>1 DEF Types
<1>3. \A n \in Images : (Present(n) => Present(n)') /\ (Untouched(n)' => Untouched(n))
  BY <1>1, <1>2 DEF Present, Untouched
<1>4. Types'
  BY <1>1, <1>2 DEF Types
<1>5. Cardinality(lost') \in Nat /\ Cardinality(lost') <= Cardinality(lost) + 1
  <2>1. Cardinality(lost \cup {i}) = IF i \in lost THEN Cardinality(lost) ELSE Cardinality(lost) + 1
    BY Numbers, FS_AddElement
  <2> QED BY <1>1, <2>1, Numbers
<1>6. Bound'
  BY <1>1, <1>5, Numbers, Constants DEF Bound, Events
<1>7. JobsSound(jobs)'
  BY <1>1, <1>3 DEF Sound, JobsSound
<1>8. Sound'
  BY <1>1, <1>3, <1>4, <1>7, SoundKept
<1> QED BY <1>4, <1>6, <1>8

-----------------------------------------------------------------------------
(* The theorems                                                            *)

(* Every step keeps ImageInv.                                              *)
LEMMA InvStep == ImageInv /\ [Next]_vars => ImageInv'
<1> SUFFICES ASSUME ImageInv, [Next]_vars PROVE ImageInv'
  OBVIOUS
<1>1. CASE UNCHANGED vars
  <2>1. /\ UNCHANGED world /\ UNCHANGED cache /\ UNCHANGED <<mic, mbsc, pull, jobs>>
        /\ UNCHANGED <<micWork, mbscWork, collecting, uids, faults, registry, lost>>
    BY <1>1 DEF vars, objects, world
  <2>2. Types' /\ Bound'
    BY <2>1 DEF Types, Bound, Events, ImageInv
  <2>3. Sound'
    BY <2>1, ControllerStep DEF Sound, ImageInv
  <2> QED BY <2>2, <2>3 DEF ImageInv
<1>2. CASE \E fails \in BOOLEAN : handleTrigger(fails) \/ garbageCollect(fails)
  BY <1>2, HandleTriggerStep, GarbageCollectStep
<1>3. CASE MICReconcile \/ MICStops \/ MBSCReconcile \/ MBSCMissing
  BY <1>3, MICReconcileStep, MICStopsStep, MBSCReconcileStep, MBSCMissingStep
<1>4. CASE DeliverMIC \/ DeliverMBSC \/ DeliverPods
  BY <1>4, DeliverStep
<1>5. CASE ChangeTrigger
  BY <1>5, ChangeTriggerStep
<1>6. CASE \E p \in pull : PullEnds(p) \/ PullBreaks(p)
  BY <1>6, PullStep
<1>7. CASE \E i \in Images, s \in Specs \cup {None} : handleMIC(i, s)
  BY <1>7, HandleMICStep
<1>8. CASE \E i \in Images : LoseImage(i)
  BY <1>8, LoseImageStep
<1>9. CASE \E i \in Images, a \in Actions :
              JobSucceeds(i, a) \/ JobFails(i, a) \/ JobGone(i, a) \/ OwnerGone(i, a)
  BY <1>9, JobStep
<1> QED BY <1>1, <1>2, <1>3, <1>4, <1>5, <1>6, <1>7, <1>8, <1>9 DEF Next

(* The variables of the image pipeline keep their types, and its events    *)
(* their bound.                                                            *)
THEOREM TypeCorrect == Spec => []TypeOK
<1>1. ImageInv => TypeOK
  BY DEF ImageInv, Types, Bound, TypeOK, Cache, JobMap
<1> QED BY <1>1, InitInv, InvStep, PTL DEF Spec

(* An image the MIC reports as existing is in the registry, or the         *)
(* registry lost it, for any images, sections and edits, however far the   *)
(* cache of the two controllers is behind and whatever calls fail.         *)
THEOREM ExistsOnlyIfPresent == Spec => []ExistsIsPresent
<1>1. ImageInv => ExistsIsPresent
  BY DEF ImageInv, Sound, StatesSound, Present, ExistsIsPresent
<1> QED BY <1>1, InitInv, InvStep, PTL DEF Spec

(* An image that the user pushed is never overwritten by a build or a      *)
(* sign, if pulls do not fail for other reasons: until the image is gone   *)
(* no object, live or cached, asks for either.                             *)
THEOREM UserImagesKept == Spec => UserImageKept
<1>1. ImageInv /\ [Next]_vars =>
          [Dependable => \A i \in Images : registry[i] = "user" => registry'[i] = "user"]_vars
  <2> SUFFICES ASSUME ImageInv, Next, Dependable, NEW i \in Images, registry[i] = "user"
               PROVE  registry'[i] = "user"
    OBVIOUS
  <2>1. CASE registry' = registry
    BY <2>1
  <2>2. ASSUME NEW n \in Images, NEW a \in Actions, JobSucceeds(n, a)
        PROVE  registry'[i] = "user"
    <3>1. registry[n] = "user" => registry' = registry
      BY <2>2, JobStep
    <3>2. n # i => registry'[i] = registry[i]
      BY <2>2 DEF JobSucceeds, ImageInv, Types
    <3> QED BY <3>1, <3>2
  <2>3. \/ registry' = registry
        \/ \E n \in Images, a \in Actions : JobSucceeds(n, a)
    BY DEF Next, handleTrigger, garbageCollect, MICReconcile, MICStops, MBSCReconcile,
           MBSCMissing, DeliverMIC, DeliverMBSC, DeliverPods, ChangeTrigger, PullEnds,
           PullBreaks, handleMIC, LoseImage, JobFails, JobGone, OwnerGone, world, objects
  <2> QED BY <2>1, <2>2, <2>3
<1> QED BY <1>1, InitInv, InvStep, PTL DEF Spec, UserImageKept

-----------------------------------------------------------------------------
(* Where the controllers rest                                              *)

(* The cache never counts further than the MIC.                            *)
CacheBehind == cache.mic.edits <= mic.edits /\ cache.mic.gen <= mic.gen

(* What the MIC controller leaves behind for an image: a pull Pod, the     *)
(* right entry in the MBSC, and the state the MBSC's result leads to.      *)
MICDone(i) ==
    /\ mic.states[i] = None => \E p \in pull : p.image = i
    /\ i \in MBSCCalls(mic) =>
          /\ mbsc # None
          /\ mbsc.spec[i] = [action |-> ActionFor(mic.states[i]), sec |-> mic.spec[i]]
    /\ mbsc # None => StateByMBSC(mbsc.status[i], mic.spec[i], mic.states[i]) = mic.states[i]

(* It rests only when it is done, as long as no event is on its way.       *)
MICRests ==
    (/\ ~micWork /\ cache.mic = mic /\ cache.mbsc = mbsc
     /\ \A p \in cache.pull : \E q \in pull : q.image = p.image)
        => \A i \in Images : mic.spec[i] # None => MICDone(i)

(* What the MBSC controller leaves behind for an image that is not done:   *)
(* a Pod, which is going or another MBSC's, or has been looked at and is   *)
(* made of the present section.                                            *)
JobKept(i) ==
    LET e == mbsc.spec[i]
        j == jobs[<<i, e.action>>]
    IN /\ j # None
       /\ \/ j.deleting
          \/ j.uid # mbsc.uid
          \/ /\ j.phase = "Running"
                \/ mbsc.status[i] = [action |-> e.action, ok |-> j.phase = "Succeeded"]
             /\ Dependable => j.hash = HashOf(e.action, e.sec)

MBSCRests ==
    (~mbscWork /\ mbsc # None /\ cache.mbsc = mbsc)
        => \A i \in SyncCalls(mbsc) :
              cache.jobs[<<i, mbsc.spec[i].action>>] = jobs[<<i, mbsc.spec[i].action>>]
                  => JobKept(i)

(* A Pod that runs is not cached as one that has ended.                    *)
PhaseBehind ==
    \A k \in Images \X Actions :
        (/\ jobs[k] # None /\ cache.jobs[k] # None /\ cache.jobs[k].uid = jobs[k].uid
         /\ jobs[k].phase = "Running")
            => cache.jobs[k].phase = "Running"

RestInv ==
    /\ ImageInv
    /\ CacheBehind
    /\ MICRests
    /\ MBSCRests
    /\ PhaseBehind

(* A result decides the state whatever it was, so looking again changes    *)
(* nothing.                                                                *)
LEMMA ByMBSCTwice ==
    ASSUME NEW r, NEW s, NEW old
    PROVE  StateByMBSC(r, s, StateByMBSC(r, s, old)) = StateByMBSC(r, s, old)
BY DEF StateByMBSC

(* A failed action makes an image that does not exist; a successful sign   *)
(* one that does, a successful build one that does or needs signing.       *)
LEMMA ResultDecides ==
    ASSUME NEW s, s # None, NEW a \in Actions, NEW old
    PROVE  /\ StateByMBSC([action |-> a, ok |-> FALSE], s, old) = "DoesNotExist"
           /\ StateByMBSC([action |-> a, ok |-> TRUE], s, old) \in {"NeedsSigning", "Exists"}
           /\ a = "SignImage" => StateByMBSC([action |-> a, ok |-> TRUE], s, old) = "Exists"
<1>1. /\ [action |-> a, ok |-> FALSE] # None
      /\ [action |-> a, ok |-> TRUE] # None
  <2>1. /\ [action |-> a, ok |-> FALSE] \in [action : Actions, ok : BOOLEAN]
        /\ [action |-> a, ok |-> TRUE] \in [action : Actions, ok : BOOLEAN]
    OBVIOUS
  <2> QED BY <2>1, NoneAssumption
<1>2. StateByMBSC([action |-> a, ok |-> FALSE], s, old) = "DoesNotExist"
  BY <1>1 DEF StateByMBSC
<1>3. /\ StateByMBSC([action |-> a, ok |-> TRUE], s, old) \in {"NeedsSigning", "Exists"}
      /\ a = "SignImage" => StateByMBSC([action |-> a, ok |-> TRUE], s, old) = "Exists"
  BY <1>1 DEF StateByMBSC
<1> QED BY <1>2, <1>3

(* What a patch of the states writes.                                      *)
LEMMA PatchFields ==
    ASSUME NEW live \in MIC, NEW obj, NEW states
    PROVE  /\ Patch(live, obj, states).spec = live.spec
           /\ Patch(live, obj, states).states =
                  IF states = obj.states THEN live.states ELSE states
BY DEF Patch, MIC

(* When a Reconcile of the MIC writes nothing that is not cached, the      *)
(* states are what the MBSC's results lead to.                             *)
LEMMA UpdateSettles ==
    ASSUME Types, Sound, NEW states \in StatesByPull(cache.mic),
           NEW r, r = updateStatusByMBSC(updateStatusByPullPods(states)),
           r.live = cache.mic
    PROVE  /\ r.obj = r.live
           /\ cache.mbsc # None =>
                 \A i \in Images :
                    StateByMBSC(cache.mbsc.status[i], r.live.spec[i], r.live.states[i])
                        = r.live.states[i]
<1> DEFINE r0 == updateStatusByPullPods(states)
           m0 == Patch(mic, cache.mic, states)
           sts == [i \in Images |->
                     StateByMBSC(cache.mbsc.status[i], r0.obj.spec[i], r0.obj.states[i])]
           m == Patch(r0.live, r0.obj, sts)
<1>1. \/ cache.pull = {} /\ r0.live = mic /\ r0.obj = cache.mic
      \/ r0.live = m0 /\ r0.obj = m0
  BY DEF updateStatusByPullPods
<1>2. r0.live \in MIC /\ r0.obj \in MIC
  BY ByPullSound DEF MICUpdate
<1>3. CASE cache.mbsc = None
  <2>1. r = r0
    BY <1>3 DEF updateStatusByMBSC
  <2> HIDE DEF r0
  <2> QED BY <1>1, <1>3, <2>1
<1>4. CASE cache.mbsc # None
  <2>1. r.live = m /\ r.obj = m
    BY <1>4 DEF updateStatusByMBSC
  <2> HIDE DEF r0
  <2>2. /\ m.spec = r0.live.spec
        /\ m.states = IF sts = r0.obj.states THEN r0.live.states ELSE sts
    <3> HIDE DEF sts
    <3> QED BY <1>2, PatchFields
  <2>3. \A i \in Images :
           sts[i] = StateByMBSC(cache.mbsc.status[i], r0.obj.spec[i], r0.obj.states[i])
    OBVIOUS
  <2> HIDE DEF sts, m
  <2>4. CASE r0.live = mic /\ r0.obj = cache.mic
    <3>1. m.states = sts /\ r0.obj = m
      BY <2>1, <2>2, <2>4
    <3> QED BY <2>1, <2>3, <3>1
  <2>5. CASE r0.live = m0 /\ r0.obj = m0
    <3>1. m.states = sts /\ m.spec = r0.obj.spec
      BY <2>2, <2>5
    <3> QED BY <2>1, <2>3, <3>1, ByMBSCTwice
  <2> QED BY <1>1, <2>4, <2>5
<1> QED BY <1>3, <1>4

(* CreateOrPatch leaves the MBSC alone or makes one that is not cached; if *)
(* it does not fail, one that is cached has what was asked for.            *)
LEMMA CreateOrPatchAhead ==
    ASSUME Types, Sound, NEW obj \in MIC, StatesSound(obj.states), NEW failed \in BOOLEAN,
           CreateOrPatch(obj, MBSCCalls(obj), failed)
    PROVE  /\ mbsc' = mbsc \/ mbsc' # cache.mbsc
           /\ ~failed /\ mbsc' = cache.mbsc =>
                 \A i \in MBSCCalls(obj) :
                    /\ mbsc' # None
                    /\ mbsc'.spec[i] = [action |-> ActionFor(obj.states[i]), sec |-> obj.spec[i]]
<1> DEFINE is == MBSCCalls(obj)
           To(i) == [action |-> ActionFor(obj.states[i]), sec |-> obj.spec[i]]
           changed == IF cache.mbsc = None THEN is
                      ELSE {i \in is : setModuleImageSpec(cache.mbsc.spec, obj, is)[i]
                                           # cache.mbsc.spec[i]}
<1>t. /\ mbsc \in MBSC \cup {None} /\ uids \in Nat /\ is \subseteq Images
      /\ None \notin MBSC /\ changed \subseteq is
  BY NoneAssumption DEF Types, MBSCCalls
<1>0. \A spec, ks : \A i \in Images : i \in ks => setModuleImageSpec(spec, obj, ks)[i] = To(i)
  BY DEF setModuleImageSpec
<1>1. CASE changed = {}
  <2>1. mbsc' = mbsc
    BY <1>1 DEF CreateOrPatch
  <2>2. CASE cache.mbsc = None
    <3>1. is = {}
      BY <1>1, <2>2
    <3> QED BY <2>1, <3>1
  <2>3. CASE cache.mbsc # None
    <3>1. \A i \in is : setModuleImageSpec(cache.mbsc.spec, obj, is)[i] = cache.mbsc.spec[i]
      BY <1>1, <2>3
    <3> HIDE DEF is
    <3>2. \A i \in is : cache.mbsc.spec[i] = To(i)
      BY <1>0, <1>t, <3>1
    <3> QED BY <2>1, <2>3, <3>2 DEF is
  <2> QED BY <2>2, <2>3
<1>2. CASE changed # {} /\ (cache.mbsc = None) # (mbsc = None)
  BY <1>2 DEF CreateOrPatch
<1>3. CASE changed # {} /\ (cache.mbsc = None) = (mbsc = None)
  <2>1. PICK kept \in (SUBSET changed) \ {{}} :
            IF mbsc = None
            THEN /\ mbsc' = [uid |-> uids + 1, status |-> NoStates,
                             spec |-> setModuleImageSpec(NoStates, obj, kept)]
                 /\ uids' = uids + 1
            ELSE /\ mbsc' = [mbsc EXCEPT !.spec =
                                setModuleImageSpec(cache.mbsc.spec, obj, kept)]
                 /\ UNCHANGED uids
    BY <1>3 DEF CreateOrPatch
  <2>2. mbsc' # cache.mbsc
    <3>1. CASE mbsc = None
      <4> DEFINE sp == setModuleImageSpec(NoStates, obj, kept)
      <4>1. sp \in [Images -> [action : Actions, sec : Specs] \cup {None}]
        <5>1. kept \in SUBSET MBSCCalls(obj)
          BY <1>t
        <5> QED BY <5>1, SpecSound, NoStatesType
      <4> HIDE DEF sp
      <4>2. mbsc' \in MBSC
        BY <2>1, <3>1, <4>1, <1>t, NoStatesType DEF MBSC, sp
      <4> QED BY <4>2, <1>3, <3>1, <1>t
    <3>2. CASE mbsc # None
      <4> DEFINE sp == setModuleImageSpec(cache.mbsc.spec, obj, kept)
      <4>1. cache.mbsc # None
        BY <1>3, <3>2
      <4>a. changed = {i \in is : setModuleImageSpec(cache.mbsc.spec, obj, is)[i]
                                      # cache.mbsc.spec[i]}
        BY <4>1
      <4>b. kept \subseteq changed /\ kept # {}
        BY <2>1
      <4> HIDE DEF is, changed
      <4>c. PICK i \in kept : TRUE
        BY <4>b
      <4>2. i \in is /\ setModuleImageSpec(cache.mbsc.spec, obj, is)[i] # cache.mbsc.spec[i]
        BY <4>a, <4>b, <4>c
      <4>3. cache.mbsc.spec[i] # To(i) /\ sp[i] = To(i)
        BY <1>0, <1>t, <4>2
      <4> HIDE DEF sp
      <4>4. mbsc'.spec = sp
        BY <2>1, <3>2, <1>t DEF MBSC, sp
      <4> QED BY <4>3, <4>4
    <3> QED BY <3>1, <3>2
  <2> QED BY <2>2
<1> QED BY <1>1, <1>2, <1>3

(* Steps that do not touch what the MIC controller has done.               *)
LEMMA MICRestsFrame ==
    ASSUME MICRests, UNCHANGED <<cache, micWork, mic>>,
           mbsc' = mbsc \/ mbsc' # cache.mbsc,
           \A i \in Images : (\E p \in pull' : p.image = i) <=> (\E p \in pull : p.image = i),
           Types
    PROVE  MICRests'
<1> SUFFICES ASSUME ~micWork, cache.mic = mic, cache.mbsc = mbsc',
                    \A p \in cache.pull : \E q \in pull' : q.image = p.image,
                    NEW i \in Images, mic.spec[i] # None
             PROVE  MICDone(i)'
  BY DEF MICRests
<1>1. mbsc' = mbsc
  OBVIOUS
<1>2. \A p \in cache.pull : p.image \in Images
  BY DEF Types, Cache, PullPod
<1>3. \A p \in cache.pull : \E q \in pull : q.image = p.image
  BY <1>2
<1>4. MICDone(i)
  BY <1>1, <1>3 DEF MICRests
<1> QED BY <1>1, <1>4 DEF MICDone, MBSCCalls

(* Steps that touch neither the Pods nor, where it is cached, the MBSC.    *)
LEMMA MBSCRestsFrame ==
    ASSUME MBSCRests, UNCHANGED <<cache, mbscWork, jobs>>,
           mbsc' = mbsc \/ mbsc' # cache.mbsc \/ mbsc' = None
    PROVE  MBSCRests'
BY DEF MBSCRests, JobKept, SyncCalls

(* Steps of the Pods: what they change is not cached, or needs no look.    *)
LEMMA JobsFrame ==
    ASSUME MBSCRests, UNCHANGED <<cache, mbsc>>, mbscWork' = mbscWork \/ mbscWork',
           \A k \in Images \X Actions :
               \/ jobs'[k] = jobs[k]
               \/ jobs'[k] # cache.jobs[k]
               \/ jobs'[k] # None /\ (jobs'[k].deleting \/ (mbsc # None => jobs'[k].uid # mbsc.uid)),
           Types
    PROVE  MBSCRests'
<1> SUFFICES ASSUME ~mbscWork, mbsc # None, cache.mbsc = mbsc, NEW i \in SyncCalls(mbsc),
                    cache.jobs[<<i, mbsc.spec[i].action>>] = jobs'[<<i, mbsc.spec[i].action>>]
             PROVE  JobKept(i)'
  BY DEF MBSCRests, SyncCalls
<1> DEFINE k == <<i, mbsc.spec[i].action>>
<1>1. k \in Images \X Actions
  BY DEF SyncCalls, Types, MBSC
<1>2. CASE jobs'[k] = jobs[k]
  BY <1>2 DEF MBSCRests, JobKept
<1>3. CASE jobs'[k] # None /\ (jobs'[k].deleting \/ jobs'[k].uid # mbsc.uid)
  BY <1>3 DEF JobKept
<1> QED BY <1>1, <1>2, <1>3

(* The MIC controller rests when it is done.                               *)
LEMMA MICReconcileRests ==
    ASSUME RestInv, MICReconcile
    PROVE  MICRests' /\ MBSCRests'
<1>0. Types /\ Sound
  BY DEF RestInv, ImageInv
<1>1. PICK states \in StatesByPull(cache.mic), failed \in BOOLEAN :
          LET r == updateStatusByMBSC(updateStatusByPullPods(states))
              creates == {i \in PullCalls(r.obj) : FreeNames(i) # {}}
          IN /\ mic' = r.live
             /\ pull' = {p \in pull : ~Named(p, PodsToDelete)}
                        \cup {CreatePullPod(i, r.obj.spec[i]) : i \in creates}
             /\ CreateOrPatch(r.obj, MBSCCalls(r.obj), failed)
             /\ micWork' = (failed \/ creates # PullCalls(r.obj))
  BY DEF MICReconcile
<1>2. PICK r : r = updateStatusByMBSC(updateStatusByPullPods(states))
  OBVIOUS
<1> DEFINE creates == {i \in PullCalls(r.obj) : FreeNames(i) # {}}
<1>3. /\ mic' = r.live
      /\ \A i \in creates : CreatePullPod(i, r.obj.spec[i]) \in pull'
      /\ CreateOrPatch(r.obj, MBSCCalls(r.obj), failed)
      /\ ~micWork' => ~failed /\ creates = PullCalls(r.obj)
  BY <1>1, <1>2
<1>4. r.obj \in MIC /\ StatesSound(r.obj.states)
  <2>1. MICUpdate(r)
    BY <1>0, <1>2, ByPullSound, ByMBSCSound
  <2> QED BY <2>1 DEF MICUpdate
<1>5. /\ mbsc' = mbsc \/ mbsc' # cache.mbsc
      /\ ~failed /\ mbsc' = cache.mbsc =>
            \A i \in MBSCCalls(r.obj) :
               /\ mbsc' # None
               /\ mbsc'.spec[i] = [action |-> ActionFor(r.obj.states[i]), sec |-> r.obj.spec[i]]
  BY <1>0, <1>3, <1>4, CreateOrPatchAhead
<1>6. cache' = cache /\ mbscWork' = mbscWork /\ jobs' = jobs
  BY DEF MICReconcile
<1>7. MBSCRests'
  BY <1>5, <1>6, MBSCRestsFrame DEF RestInv
<1>8. MICRests'
  <2> SUFFICES ASSUME ~micWork', cache.mic = mic', cache.mbsc = mbsc',
                      \A p \in cache.pull : \E q \in pull' : q.image = p.image,
                      NEW i \in Images, mic'.spec[i] # None
               PROVE  MICDone(i)'
    BY <1>6 DEF MICRests
  <2>1. /\ r.obj = mic'
        /\ cache.mbsc # None =>
             StateByMBSC(cache.mbsc.status[i], mic'.spec[i], mic'.states[i]) = mic'.states[i]
    BY <1>0, <1>2, <1>3, UpdateSettles
  <2>2. ASSUME mic'.states[i] = None PROVE \E p \in pull' : p.image = i
    <3>1. CASE \E p \in cache.pull : p.image = i
      BY <3>1
    <3>2. CASE ~\E p \in cache.pull : p.image = i
      <4>1. i \in PullCalls(r.obj)
        BY <2>1, <2>2, <3>2 DEF PullCalls
      <4>2. CreatePullPod(i, r.obj.spec[i]) \in pull'
        BY <1>3, <4>1
      <4> QED BY <4>2 DEF CreatePullPod
    <3> QED BY <3>1, <3>2
  <2>3. ASSUME i \in MBSCCalls(r.obj)
        PROVE  /\ mbsc' # None
               /\ mbsc'.spec[i] = [action |-> ActionFor(mic'.states[i]), sec |-> mic'.spec[i]]
    BY <1>3, <1>5, <2>1, <2>3
  <2>4. i \in MBSCCalls(mic)' => i \in MBSCCalls(r.obj)
    BY <2>1 DEF MBSCCalls
  <2> QED BY <2>1, <2>2, <2>3, <2>4 DEF MICDone
<1> QED BY <1>7, <1>8

(* updateStatus leaves the MBSC alone or makes one that is not cached.     *)
LEMMA UpdateStatusAhead ==
    ASSUME Types, mbsc # None, cache.mbsc # None
    PROVE  /\ updateStatus = mbsc \/ updateStatus # cache.mbsc
           /\ updateStatus = cache.mbsc =>
                 \A i \in Images : StatusByJob(cache.mbsc, i) = cache.mbsc.status[i]
<1> DEFINE status == [i \in Images |-> StatusByJob(cache.mbsc, i)]
<1>1. mbsc \in MBSC
  BY DEF Types
<1>2. \A i \in Images : status[i] = StatusByJob(cache.mbsc, i)
  OBVIOUS
<1>3. updateStatus = [mbsc EXCEPT !.status = IF status = cache.mbsc.status THEN @ ELSE status]
  BY DEF updateStatus
<1> HIDE DEF status
<1>4. CASE status = cache.mbsc.status
  <2>1. updateStatus = mbsc
    BY <1>1, <1>3, <1>4 DEF MBSC
  <2> QED BY <1>2, <1>4, <2>1
<1>5. CASE status # cache.mbsc.status
  <2>1. updateStatus.status = status
    BY <1>1, <1>3, <1>5 DEF MBSC
  <2> QED BY <1>5, <2>1
<1> QED BY <1>4, <1>5

(* The MBSC controller rests when it has looked at the Pods.               *)
LEMMA MBSCReconcileRests ==
    ASSUME RestInv, MBSCReconcile
    PROVE  MICRests' /\ MBSCRests' /\ PhaseBehind'
<1>0. Types /\ Sound /\ None \notin Job
  BY NoneAssumption DEF RestInv, ImageInv
<1>1. /\ mbscWork /\ mbsc # None /\ cache.mbsc # None /\ mbsc' = updateStatus
      /\ UNCHANGED <<cache, mic, pull, micWork>>
  BY DEF MBSCReconcile
<1>2. /\ mbsc' = mbsc \/ mbsc' # cache.mbsc
      /\ mbsc' = cache.mbsc =>
            \A i \in Images : StatusByJob(cache.mbsc, i) = cache.mbsc.status[i]
  BY <1>0, <1>1, UpdateStatusAhead
<1>3. MICRests'
  BY <1>0, <1>1, <1>2, MICRestsFrame DEF RestInv
<1>4. PICK b : b = mbsc'
  OBVIOUS
<1>5. b \in MBSC
  BY <1>0, <1>1, <1>4, UpdateStatusSound
<1>6. PICK is \in SUBSET SyncCalls(b) :
          /\ jobs' = SyncAll(b, is)
          /\ ~mbscWork' => \A i \in SyncCalls(b) \ is : ~Dependable /\ i \in Deletions(b)
  BY <1>1, <1>4 DEF MBSCReconcile
<1>7. \A k \in Images \X Actions :
         jobs'[k] = IF k[1] \in is /\ b.spec[k[1]].action = k[2] THEN Sync(b, k) ELSE jobs[k]
  BY <1>6 DEF SyncAll
<1>8. ASSUME NEW k \in Images \X Actions
      PROVE  LET cached == OwnedJob(b.uid, k[1], k[2])
                 hash == HashOf(k[2], b.spec[k[1]].sec)
             IN \/ jobs'[k] = jobs[k]
                \/ /\ cached = None /\ jobs[k] = None
                   /\ jobs'[k] = [uid |-> b.uid, hash |-> hash, phase |-> "Running", deleting |-> FALSE]
                \/ jobs[k] # None /\ jobs'[k] = [jobs[k] EXCEPT !.deleting = TRUE]
  BY <1>7 DEF Sync
<1>9. PhaseBehind'
  <2> SUFFICES ASSUME NEW k \in Images \X Actions, jobs'[k] # None, cache.jobs[k] # None,
                      cache.jobs[k].uid = jobs'[k].uid, jobs'[k].phase = "Running"
               PROVE  cache.jobs[k].phase = "Running"
    BY <1>1 DEF PhaseBehind
  <2>1. CASE jobs'[k] = jobs[k]
    BY <2>1 DEF RestInv, PhaseBehind
  <2>2. CASE OwnedJob(b.uid, k[1], k[2]) = None /\ jobs'[k].uid = b.uid
    <3>1. k = <<k[1], k[2]>>
      OBVIOUS
    <3> QED BY <2>2, <3>1 DEF OwnedJob
  <2>3. CASE jobs[k] # None /\ jobs'[k] = [jobs[k] EXCEPT !.deleting = TRUE]
    <3>1. jobs[k] \in Job
      BY <1>0, <2>3 DEF Types, JobMap
    <3>2. jobs'[k].uid = jobs[k].uid /\ jobs'[k].phase = jobs[k].phase
      BY <2>3, <3>1 DEF Job
    <3> QED BY <2>3, <3>2 DEF RestInv, PhaseBehind
  <2>4. \/ jobs'[k] = jobs[k]
        \/ OwnedJob(b.uid, k[1], k[2]) = None /\ jobs'[k].uid = b.uid
        \/ jobs[k] # None /\ jobs'[k] = [jobs[k] EXCEPT !.deleting = TRUE]
    <3> DEFINE hash == HashOf(k[2], b.spec[k[1]].sec)
    <3>1. \/ jobs'[k] = jobs[k]
          \/ /\ OwnedJob(b.uid, k[1], k[2]) = None
             /\ jobs'[k] = [uid |-> b.uid, hash |-> hash, phase |-> "Running", deleting |-> FALSE]
          \/ jobs[k] # None /\ jobs'[k] = [jobs[k] EXCEPT !.deleting = TRUE]
      BY <1>8
    <3> HIDE DEF hash
    <3> QED BY <3>1
  <2> QED BY <2>1, <2>2, <2>3, <2>4
<1>10. MBSCRests'
  <2> SUFFICES ASSUME ~mbscWork', b # None, cache.mbsc = b, NEW i \in SyncCalls(b),
                      cache.jobs[<<i, b.spec[i].action>>] = jobs'[<<i, b.spec[i].action>>]
               PROVE  JobKept(i)'
    BY <1>1, <1>4 DEF MBSCRests, SyncCalls
  <2> DEFINE e == b.spec[i]
             k == <<i, e.action>>
             cached == OwnedJob(b.uid, i, e.action)
             hash == HashOf(e.action, e.sec)
  <2>0. /\ i \in Images /\ e # None /\ e \in [action : Actions, sec : Specs]
        /\ k \in Images \X Actions /\ k[1] = i /\ k[2] = e.action
        /\ b.status[i] # [action |-> e.action, ok |-> TRUE]
    BY <1>5 DEF SyncCalls, MBSC
  <2>1. jobs[k] \in Job \cup {None}
    BY <1>0, <2>0 DEF Types, JobMap
  <2>2. StatusByJob(b, i) = b.status[i]
    BY <1>2, <1>4, <2>0
  <2>3. cached = IF cache.jobs[k] # None /\ cache.jobs[k].uid = b.uid THEN cache.jobs[k] ELSE None
    BY DEF OwnedJob
  <2>4. StatusByJob(b, i) = IF cached = None \/ cached.phase = "Running" THEN b.status[i]
                            ELSE [action |-> e.action, ok |-> cached.phase = "Succeeded"]
    BY <2>0 DEF StatusByJob
  <2> HIDE DEF cached
  <2>5. SUFFICES /\ jobs'[k] # None
                 /\ \/ jobs'[k].deleting
                    \/ jobs'[k].uid # b.uid
                    \/ /\ jobs'[k].phase = "Running"
                          \/ b.status[i] = [action |-> e.action, ok |-> jobs'[k].phase = "Succeeded"]
                       /\ Dependable => jobs'[k].hash = hash
    BY <1>4 DEF JobKept
  <2>6. CASE i \in is
    <3>1. jobs'[k] = Sync(b, k)
      BY <1>7, <2>0, <2>6
    <3>2. CASE cached = None /\ jobs[k] = None
      <4>1. jobs'[k] = [uid |-> b.uid, hash |-> hash, phase |-> "Running", deleting |-> FALSE]
        BY <2>0, <3>1, <3>2 DEF Sync, cached
      <4>2. hash \in Hashes
        <5>1. e.sec \in Specs
          BY <2>0
        <5>2. Section(e.action, e.sec) \in Revs
          BY <5>1 DEF Section, Revs
        <5>3. (e.action = "SignImage" /\ e.sec.build # 0) \in BOOLEAN
          OBVIOUS
        <5> QED BY <5>2, <5>3 DEF HashOf, Hashes
      <4> HIDE DEF hash
      <4>3. jobs'[k] # None /\ jobs'[k].uid = b.uid
        <5>1. b.uid \in Nat
          BY <1>5 DEF MBSC
        <5>2. jobs'[k] \in Job
          BY <4>1, <4>2, <5>1 DEF Job
        <5>3. jobs'[k].uid = b.uid
          BY <4>1
        <5>4. jobs'[k] # None
          BY <1>0, <5>2
        <5> QED BY <5>3, <5>4
      <4> QED BY <2>3, <3>2, <4>3
    <3>3. CASE cached # None /\ cached.hash # hash /\ jobs[k] # None
      <4>1. jobs'[k] = [jobs[k] EXCEPT !.deleting = TRUE]
        BY <2>0, <3>1, <3>3 DEF Sync, cached
      <4>2. jobs'[k] \in Job /\ jobs'[k].deleting
        BY <2>1, <3>3, <4>1 DEF Job
      <4> QED BY <1>0, <4>2
    <3>4. CASE /\ jobs'[k] = jobs[k]
               /\ ~(cached = None /\ jobs[k] = None)
               /\ ~(cached # None /\ cached.hash # hash /\ jobs[k] # None)
      <4>1. cached = None \/ cached = jobs'[k]
        BY <2>3
      <4>2. CASE cached = None
        BY <2>3, <3>4, <4>2
      <4>3. CASE cached # None /\ cached = jobs'[k] /\ cached.hash = hash
        BY <2>2, <2>4, <4>3
      <4> QED BY <3>4, <4>1, <4>2, <4>3
    <3> QED BY <2>0, <3>1, <3>2, <3>3, <3>4 DEF Sync, cached
  <2>7. CASE i \notin is
    <3>1. jobs'[k] = jobs[k] /\ ~Dependable /\ i \in Deletions(b)
      BY <1>6, <1>7, <2>0, <2>7
    <3>2. cached # None
      BY <3>1 DEF Deletions, cached
    <3>3. cached = jobs'[k]
      BY <2>3, <3>2
    <3> QED BY <2>2, <2>4, <3>1, <3>2, <3>3
  <2> QED BY <2>6, <2>7
<1> QED BY <1>3, <1>9, <1>10

(* A step that changes no Pod and leaves the cache alone.                  *)
LEMMA PhaseFrame ==
    ASSUME PhaseBehind, UNCHANGED <<cache, jobs>>
    PROVE  PhaseBehind'
BY DEF PhaseBehind

(* Every step keeps RestInv.                                               *)
LEMMA RestStep == RestInv /\ [Next]_vars => RestInv'
<1> SUFFICES ASSUME RestInv, [Next]_vars PROVE RestInv'
  OBVIOUS
<1>0. /\ Types /\ Sound /\ MICRests /\ MBSCRests /\ PhaseBehind /\ CacheBehind
      /\ mic.edits \in Nat /\ mic.gen \in Nat /\ cache.mic.edits \in Nat /\ cache.mic.gen \in Nat
      /\ mic \in MIC /\ None \notin Job /\ jobs \in JobMap
  BY NoneAssumption DEF RestInv, ImageInv, Types, Cache, MIC
<1>i. ImageInv'
  BY InvStep DEF RestInv
<1>1. CASE UNCHANGED vars
  <2>1. UNCHANGED <<cache, mic, mbsc, pull, jobs, micWork, mbscWork>>
    BY <1>1 DEF vars, objects
  <2>2. MICRests' /\ MBSCRests' /\ PhaseBehind'
    BY <1>0, <2>1, MICRestsFrame, MBSCRestsFrame, PhaseFrame
  <2> QED BY <1>0, <1>i, <2>1, <2>2 DEF RestInv, CacheBehind
<1>2. ASSUME NEW fails \in BOOLEAN, handleTrigger(fails) PROVE RestInv'
  <2>1. /\ UNCHANGED <<cache, jobs, micWork, mbscWork>> /\ mbsc' = None /\ micWork
        /\ mic' = mic \/ mic' = [Patch(mic, cache.mic, NoStates) EXCEPT !.statusGen = cache.mic.gen]
    BY <1>2 DEF handleTrigger
  <2>2. mic'.edits = mic.edits /\ mic'.gen = mic.gen
    BY <1>0, <2>1 DEF Patch, MIC
  <2>3. MICRests'
    BY <2>1 DEF MICRests
  <2>4. MBSCRests' /\ PhaseBehind'
    BY <1>0, <2>1, MBSCRestsFrame, PhaseFrame
  <2> QED BY <1>0, <1>i, <2>1, <2>2, <2>3, <2>4 DEF RestInv, CacheBehind
<1>3. ASSUME NEW fails \in BOOLEAN, garbageCollect(fails) PROVE RestInv'
  <2>1. /\ UNCHANGED <<cache, mic, mbsc, pull, micWork>>
        /\ mbscWork' = mbscWork \/ mbscWork'
    BY <1>3 DEF garbageCollect
  <2>2. \A k \in Images \X Actions :
            \/ jobs'[k] = jobs[k]
            \/ jobs[k] # None /\ jobs'[k] = [jobs[k] EXCEPT !.deleting = TRUE]
    BY <1>3 DEF garbageCollect
  <2>3. ASSUME NEW k \in Images \X Actions, jobs[k] # None,
               jobs'[k] = [jobs[k] EXCEPT !.deleting = TRUE]
        PROVE  /\ jobs'[k] # None /\ jobs'[k].deleting
               /\ jobs'[k].uid = jobs[k].uid /\ jobs'[k].phase = jobs[k].phase
    <3>1. jobs[k] \in Job
      BY <1>0, <2>3 DEF JobMap
    <3>2. jobs'[k] \in Job /\ jobs'[k].deleting
      BY <2>3, <3>1 DEF Job
    <3> QED BY <1>0, <2>3, <3>1, <3>2 DEF Job
  <2>4. MICRests'
    BY <1>0, <2>1, MICRestsFrame
  <2>5. MBSCRests'
    BY <1>0, <2>1, <2>2, <2>3, JobsFrame
  <2>6. PhaseBehind'
    BY <1>0, <2>1, <2>2, <2>3 DEF PhaseBehind
  <2> QED BY <1>0, <1>i, <2>1, <2>4, <2>5, <2>6 DEF RestInv, CacheBehind
<1>4. CASE MICReconcile
  <2>1. mic'.edits = mic.edits /\ mic'.gen = mic.gen /\ UNCHANGED <<cache, jobs>>
    <3>1. PICK states \in StatesByPull(cache.mic) :
              mic' = updateStatusByMBSC(updateStatusByPullPods(states)).live
      BY <1>4 DEF MICReconcile
    <3>2. MICUpdate(updateStatusByMBSC(updateStatusByPullPods(states)))
      BY <1>0, ByPullSound, ByMBSCSound
    <3> QED BY <1>4, <3>1, <3>2 DEF MICUpdate, MICReconcile
  <2>2. MICRests' /\ MBSCRests'
    BY <1>4, MICReconcileRests
  <2>3. PhaseBehind'
    BY <1>0, <2>1, PhaseFrame
  <2> QED BY <1>0, <1>i, <2>1, <2>2, <2>3 DEF RestInv, CacheBehind
<1>5. CASE MICStops
  <2>1. UNCHANGED <<cache, jobs, mbsc, micWork, mbscWork>> /\ micWork
    BY <1>5 DEF MICStops
  <2>2. mic'.edits = mic.edits /\ mic'.gen = mic.gen
    <3>1. PICK states \in StatesByPull(cache.mic) :
              \/ mic' = updateStatusByPullPods(states).live
              \/ mic' = updateStatusByMBSC(updateStatusByPullPods(states)).live
      BY <1>5 DEF MICStops
    <3>2. /\ MICUpdate(updateStatusByPullPods(states))
          /\ MICUpdate(updateStatusByMBSC(updateStatusByPullPods(states)))
      BY <1>0, ByPullSound, ByMBSCSound
    <3> QED BY <3>1, <3>2 DEF MICUpdate
  <2>3. MICRests'
    BY <2>1 DEF MICRests
  <2>4. MBSCRests' /\ PhaseBehind'
    BY <1>0, <2>1, MBSCRestsFrame, PhaseFrame
  <2> QED BY <1>0, <1>i, <2>1, <2>2, <2>3, <2>4 DEF RestInv, CacheBehind
<1>6. CASE MBSCReconcile
  <2>1. UNCHANGED <<cache, mic>>
    BY <1>6 DEF MBSCReconcile
  <2> QED BY <1>0, <1>6, <1>i, <2>1, MBSCReconcileRests DEF RestInv, CacheBehind
<1>7. CASE MBSCMissing
  <2>1. UNCHANGED <<cache, mic, mbsc, pull, jobs, micWork>> /\ cache.mbsc = None
    BY <1>7 DEF MBSCMissing, objects
  <2>2. MICRests' /\ PhaseBehind'
    BY <1>0, <2>1, MICRestsFrame, PhaseFrame
  <2>3. MBSCRests'
    BY <2>1 DEF MBSCRests
  <2> QED BY <1>0, <1>i, <2>1, <2>2, <2>3 DEF RestInv, CacheBehind
<1>8. CASE DeliverMIC
  <2>1. /\ UNCHANGED <<mic, mbsc, pull, jobs, mbscWork>> /\ micWork'
        /\ cache'.mic = mic /\ cache'.mbsc = cache.mbsc /\ cache'.jobs = cache.jobs
    BY <1>0, <1>8 DEF DeliverMIC, objects, Types, Cache
  <2>2. MICRests' /\ CacheBehind'
    BY <1>0, <2>1 DEF MICRests, CacheBehind
  <2>3. MBSCRests' /\ PhaseBehind'
    BY <1>0, <2>1 DEF MBSCRests, JobKept, SyncCalls, PhaseBehind
  <2> QED BY <1>i, <2>2, <2>3 DEF RestInv
<1>9. CASE DeliverMBSC
  <2>1. /\ UNCHANGED <<mic, mbsc, pull, jobs>> /\ micWork' /\ mbscWork'
        /\ cache'.mic = cache.mic /\ cache'.jobs = cache.jobs
    BY <1>0, <1>9 DEF DeliverMBSC, objects, Types, Cache
  <2>2. MICRests' /\ MBSCRests'
    BY <2>1 DEF MICRests, MBSCRests
  <2>3. PhaseBehind' /\ CacheBehind'
    BY <1>0, <2>1 DEF PhaseBehind, CacheBehind
  <2> QED BY <1>i, <2>2, <2>3 DEF RestInv
<1>10. CASE DeliverPods
  <2>1. /\ UNCHANGED <<mic, mbsc, pull, jobs>>
        /\ cache'.mic = cache.mic /\ cache'.mbsc = cache.mbsc
        /\ cache'.jobs = jobs /\ cache'.pull = pull
        /\ ~micWork' => ~micWork /\ cache.pull = pull
        /\ ~mbscWork' => ~mbscWork /\ cache.jobs = jobs
    BY <1>0, <1>10 DEF DeliverPods, objects, Types, Cache
  <2>2. MICRests'
    BY <1>0, <2>1 DEF MICRests, MICDone, MBSCCalls
  <2>3. MBSCRests'
    BY <1>0, <2>1 DEF MBSCRests, JobKept, SyncCalls
  <2>4. PhaseBehind' /\ CacheBehind'
    BY <1>0, <2>1 DEF PhaseBehind, CacheBehind
  <2> QED BY <1>i, <2>2, <2>3, <2>4 DEF RestInv
<1>11. CASE ChangeTrigger \/ \E i \in Images, s \in Specs \cup {None} : handleMIC(i, s)
  <2>1. /\ UNCHANGED <<cache, mbsc, pull, jobs, micWork, mbscWork>>
        /\ \/ mic'.gen = mic.gen + 1 /\ mic'.edits = mic.edits
           \/ mic'.gen = mic.gen /\ mic'.edits = mic.edits + 1
    BY <1>0, <1>11 DEF ChangeTrigger, handleMIC, MIC
  <2>2. cache.mic # mic'
    BY <1>0, <2>1 DEF CacheBehind
  <2>3. MICRests'
    BY <2>1, <2>2 DEF MICRests
  <2>4. MBSCRests' /\ PhaseBehind'
    BY <1>0, <2>1, MBSCRestsFrame, PhaseFrame
  <2>5. CacheBehind'
    BY <1>0, <2>1 DEF CacheBehind
  <2> QED BY <1>i, <2>3, <2>4, <2>5 DEF RestInv
<1>12. ASSUME NEW p \in pull, PullEnds(p) \/ PullBreaks(p) PROVE RestInv'
  <2>1. /\ UNCHANGED <<cache, mic, mbsc, jobs, micWork, mbscWork>>
        /\ \E phase : pull' = (pull \ {p}) \cup {[p EXCEPT !.phase = phase]}
    BY <1>12 DEF PullEnds, PullBreaks, SetPhase, controllers
  <2>p. PICK phase : pull' = (pull \ {p}) \cup {[p EXCEPT !.phase = phase]}
    BY <2>1
  <2> DEFINE q == [p EXCEPT !.phase = phase]
  <2>2. pull' = (pull \ {p}) \cup {q} /\ q.image = p.image
    <3>1. p \in PullPod
      BY <1>0 DEF Types
    <3> QED BY <2>p, <3>1 DEF PullPod
  <2> HIDE DEF q
  <2>3. \A i \in Images : (\E t \in pull' : t.image = i) <=> (\E t \in pull : t.image = i)
    BY <2>2
  <2>4. MICRests' /\ MBSCRests' /\ PhaseBehind'
    BY <1>0, <2>1, <2>3, MICRestsFrame, MBSCRestsFrame, PhaseFrame
  <2> QED BY <1>0, <1>i, <2>1, <2>4 DEF RestInv, CacheBehind
<1>13. ASSUME NEW i \in Images, LoseImage(i) PROVE RestInv'
  <2>1. UNCHANGED <<cache, mic, mbsc, pull, jobs, micWork, mbscWork>>
    BY <1>13 DEF LoseImage, controllers
  <2>2. MICRests' /\ MBSCRests' /\ PhaseBehind'
    BY <1>0, <2>1, MICRestsFrame, MBSCRestsFrame, PhaseFrame
  <2> QED BY <1>0, <1>i, <2>1, <2>2 DEF RestInv, CacheBehind
<1>14. ASSUME NEW i \in Images, NEW a \in Actions,
              JobSucceeds(i, a) \/ JobFails(i, a) \/ JobGone(i, a) \/ OwnerGone(i, a)
       PROVE  RestInv'
  <2> DEFINE k == <<i, a>>
  <2>1. UNCHANGED <<cache, mic, mbsc, pull, micWork, mbscWork>>
    BY <1>14 DEF JobSucceeds, JobFails, JobGone, OwnerGone, controllers
  <2>2. k \in Images \X Actions /\ jobs[k] # None /\ jobs[k] \in Job
    BY <1>0, <1>14 DEF JobSucceeds, JobFails, JobGone, OwnerGone, JobMap
  <2>3. \/ \E phase \in {"Succeeded", "Failed"} :
              jobs[k].phase = "Running" /\ jobs' = [jobs EXCEPT ![k].phase = phase]
        \/ jobs' = [jobs EXCEPT ![k] = None] /\ cache.jobs[k] = jobs[k]
        \/ /\ jobs' = [jobs EXCEPT ![k].deleting = TRUE]
           /\ mbsc # None => mbsc.uid # jobs[k].uid
    BY <1>14 DEF JobSucceeds, JobFails, JobGone, OwnerGone
  <2> HIDE DEF k
  <2>4. \A n \in Images \X Actions : n # k => jobs'[n] = jobs[n]
    BY <1>0, <2>3 DEF JobMap
  <2>5. /\ \/ jobs'[k] # cache.jobs[k]
           \/ jobs'[k] # None /\ (mbsc # None => jobs'[k].uid # mbsc.uid)
        /\ jobs'[k] # None /\ jobs'[k].phase = "Running" =>
              jobs[k].phase = "Running" /\ jobs'[k].uid = jobs[k].uid
    <3>1. ASSUME NEW phase \in {"Succeeded", "Failed"}, jobs[k].phase = "Running",
                 jobs' = [jobs EXCEPT ![k].phase = phase]
          PROVE  jobs'[k] # cache.jobs[k] /\ jobs'[k].phase # "Running"
      <4>1. jobs'[k] = [jobs[k] EXCEPT !.phase = phase]
        BY <1>0, <2>2, <3>1 DEF JobMap
      <4>2. jobs'[k] \in Job /\ jobs'[k].phase = phase /\ jobs'[k].uid = jobs[k].uid
        BY <2>2, <4>1 DEF Job
      <4>3. jobs'[k] # cache.jobs[k]
        BY <1>0, <2>2, <3>1, <4>2 DEF PhaseBehind
      <4> QED BY <4>2, <4>3
    <3>2. CASE jobs' = [jobs EXCEPT ![k] = None] /\ cache.jobs[k] = jobs[k]
      BY <1>0, <2>2, <3>2 DEF JobMap
    <3>3. CASE /\ jobs' = [jobs EXCEPT ![k].deleting = TRUE]
               /\ mbsc # None => mbsc.uid # jobs[k].uid
      <4>1. jobs'[k] = [jobs[k] EXCEPT !.deleting = TRUE]
        BY <1>0, <2>2, <3>3 DEF JobMap
      <4>2. jobs'[k] \in Job /\ jobs'[k].phase = jobs[k].phase /\ jobs'[k].uid = jobs[k].uid
        BY <2>2, <4>1 DEF Job
      <4> QED BY <1>0, <3>3, <4>2
    <3> QED BY <2>3, <3>1, <3>2, <3>3
  <2>6. MICRests'
    BY <1>0, <2>1, MICRestsFrame
  <2>7. MBSCRests'
    BY <1>0, <2>1, <2>4, <2>5, JobsFrame
  <2>8. PhaseBehind'
    BY <1>0, <2>1, <2>2, <2>4, <2>5 DEF PhaseBehind
  <2> QED BY <1>0, <1>i, <2>1, <2>6, <2>7, <2>8 DEF RestInv, CacheBehind
<1> QED BY <1>1, <1>2, <1>3, <1>4, <1>5, <1>6, <1>7, <1>8, <1>9, <1>10, <1>11, <1>12, <1>13,
           <1>14 DEF Next

(* No wake-up is lost, for any images, sections and edits: when both       *)
(* controllers rest and their cache is current, an image without a state   *)
(* has a pull Pod, and one that is to be built or signed, or was not, has  *)
(* the Pod that its present spec calls for, running or failed, or waits    *)
(* for an old one to go.                                                   *)
THEOREM RestsWhenWaiting == Spec => []RestsOnlyWhenWaiting
<1>1. Init => RestInv
  <2> SUFFICES ASSUME Init PROVE RestInv
    OBVIOUS
  <2>1. ImageInv
    BY InitInv
  <2>2. micWork /\ mbsc = None /\ cache.mic = mic
    BY DEF Init
  <2>3. mic.edits \in Nat /\ mic.gen \in Nat
    BY <2>1 DEF ImageInv, Types, MIC
  <2>4. \A k \in Images \X Actions : jobs[k] = None
    BY DEF Init
  <2> QED BY <2>1, <2>2, <2>3, <2>4
     DEF RestInv, CacheBehind, MICRests, MBSCRests, PhaseBehind
<1>2. RestInv /\ [Next]_vars => RestInv'
  BY RestStep
<1>3. RestInv => RestsOnlyWhenWaiting
  <2> SUFFICES ASSUME RestInv, Quiet, NEW i \in Images, mic.spec[i] # None
               PROVE  LET s == mic.spec[i]
                          st == mic.states[i]
                          j == jobs[<<i, ActionFor(st)>>]
                      IN /\ st = None => \E p \in pull : p.image = i
                         /\ (st \in {"NeedsBuilding", "NeedsSigning"}
                             \/ (st = "DoesNotExist" /\ (s.build # 0 \/ s.sign # 0)))
                            => /\ j # None
                               /\ \/ j.deleting \/ j.uid # mbsc.uid
                                  \/ /\ j.phase = "Running" \/ st = "DoesNotExist"
                                     /\ Dependable => j.hash = HashOf(ActionFor(st), s)
    BY DEF RestsOnlyWhenWaiting
  <2> DEFINE s == mic.spec[i]
             st == mic.states[i]
             a == ActionFor(st)
             j == jobs[<<i, a>>]
  <2>1. /\ ~micWork /\ ~mbscWork /\ cache.mic = mic /\ cache.mbsc = mbsc
        /\ cache.pull = pull /\ cache.jobs = jobs
    BY DEF Quiet
  <2>2. MICDone(i)
    BY <2>1 DEF RestInv, MICRests
  <2>3. ASSUME \/ st \in {"NeedsBuilding", "NeedsSigning"}
               \/ st = "DoesNotExist" /\ (s.build # 0 \/ s.sign # 0)
        PROVE  /\ j # None
               /\ \/ j.deleting \/ j.uid # mbsc.uid
                  \/ /\ j.phase = "Running" \/ st = "DoesNotExist"
                     /\ Dependable => j.hash = HashOf(a, s)
    <3>1. i \in MBSCCalls(mic)
      BY <2>3 DEF MBSCCalls
    <3>2. /\ mbsc # None /\ mbsc.spec[i] = [action |-> a, sec |-> s]
          /\ StateByMBSC(mbsc.status[i], s, st) = st
      BY <2>2, <3>1 DEF MICDone
    <3>n. None # [action |-> a, sec |-> s]
      <4>1. s \in Specs /\ a \in Actions
        BY DEF RestInv, ImageInv, Types, MIC, ActionFor, Actions
      <4> QED BY <4>1, NoneAssumption
    <3>3. ASSUME mbsc.status[i] = [action |-> a, ok |-> TRUE] PROVE FALSE
      <4>1. a \in Actions
        BY DEF ActionFor, Actions
      <4>2. /\ StateByMBSC(mbsc.status[i], s, st) \in {"NeedsSigning", "Exists"}
            /\ a = "SignImage" => StateByMBSC(mbsc.status[i], s, st) = "Exists"
        <5>1. s # None
          OBVIOUS
        <5> HIDE DEF s, st, a
        <5>2. /\ StateByMBSC([action |-> a, ok |-> TRUE], s, st) \in {"NeedsSigning", "Exists"}
              /\ a = "SignImage" => StateByMBSC([action |-> a, ok |-> TRUE], s, st) = "Exists"
          BY <4>1, <5>1, ResultDecides
        <5> QED BY <3>3, <5>2
      <4> QED BY <2>3, <3>2, <4>2 DEF ActionFor
    <3>4. i \in SyncCalls(mbsc)
      <4>1. mbsc.spec[i] # None /\ mbsc.spec[i].action = a
        BY <3>2, <3>n
      <4> HIDE DEF a
      <4> QED BY <3>3, <4>1 DEF SyncCalls
    <3>5. JobKept(i)
      BY <2>1, <3>2, <3>4 DEF RestInv, MBSCRests
    <3>6. /\ j # None
          /\ \/ j.deleting \/ j.uid # mbsc.uid
             \/ /\ j.phase = "Running" \/ mbsc.status[i] = [action |-> a, ok |-> j.phase = "Succeeded"]
                /\ Dependable => j.hash = HashOf(a, s)
      BY <3>2, <3>5 DEF JobKept
    <3>7. ASSUME j.phase # "Running", mbsc.status[i] = [action |-> a, ok |-> j.phase = "Succeeded"]
          PROVE  st = "DoesNotExist"
      <4>1. j.phase # "Succeeded"
        BY <3>3, <3>7
      <4>2. mbsc.status[i] = [action |-> a, ok |-> FALSE]
        BY <3>7, <4>1
      <4>3. a \in Actions
        BY DEF ActionFor, Actions
      <4>4. StateByMBSC(mbsc.status[i], s, st) = "DoesNotExist"
        BY <4>2, <4>3, ResultDecides
      <4> QED BY <3>2, <4>4
    <3> QED BY <3>6, <3>7
  <2> QED BY <2>2, <2>3 DEF MICDone
<1> QED BY <1>1, <1>2, <1>3, PTL DEF Spec

-----------------------------------------------------------------------------
(* Build and sign in turn                                                  *)

(* The MIC is the one the Module controller created.                       *)
AsCreated == mic.edits = 0 /\ mic.gen = 0

(* The MIC controller wants no rebuild, and sees the spec.                 *)
SpecSeen ==
    /\ mic.statusGen = 0 /\ cache.mic.gen = 0 /\ cache.mic.statusGen = 0
    /\ cache.mic.spec = mic.spec

(* An MBSC asks for what the MIC's spec says.                              *)
Asks(b) ==
    b # None => \A i \in Images :
                   b.spec[i] # None => mic.spec[i] # None /\ b.spec[i].sec = mic.spec[i]

(* There is one MBSC, once there is one.                                   *)
OneMBSC ==
    /\ cache.mbsc # None => mbsc # None /\ cache.mbsc.uid = mbsc.uid
    /\ Asks(mbsc) /\ Asks(cache.mbsc)

(* Its Pods are made of the section there is, and deleted only when they   *)
(* have succeeded...                                                       *)
JobMade(k, j) ==
    j # None =>
        /\ mbsc # None /\ j.uid = mbsc.uid
        /\ j.hash = HashOf(k[2], mic.spec[k[1]])
        /\ Section(k[2], mic.spec[k[1]]) # 0
        /\ j.deleting => j.phase = "Succeeded"

(* ...so a Pod that is cached as ended has ended like that, and one that   *)
(* failed stays.                                                           *)
JobSeen(k) ==
    cache.jobs[k] # None =>
        /\ jobs[k] # None /\ cache.jobs[k].phase # "Running" => jobs[k].phase = cache.jobs[k].phase
        /\ cache.jobs[k].phase = "Failed" => jobs[k] # None

JobsMade ==
    \A k \in Images \X Actions : JobMade(k, jobs[k]) /\ JobMade(k, cache.jobs[k]) /\ JobSeen(k)

(* A sign follows the result of a build that both controllers have seen.   *)
ResultSeen(i) == cache.mbsc # None /\ cache.mbsc.status[i] # None

SignsSeen(b, i) ==
    b # None /\ b.spec[i] # None /\ b.spec[i].action = "SignImage" => ResultSeen(i)

SignAfterBuild(i) ==
    /\ mic.states[i] = "NeedsSigning" => ResultSeen(i)
    /\ cache.mic.states[i] = "NeedsSigning" => ResultSeen(i)
    /\ SignsSeen(mbsc, i) /\ SignsSeen(cache.mbsc, i)
    /\ ResultSeen(i) => mbsc.status[i] # None

InPhase(i, a, phase) == jobs[<<i, a>>] # None /\ jobs[<<i, a>>].phase = phase

Result(a, ok) == [action |-> a, ok |-> ok]

(* What the recorded result says of the Pods: a failure is that of a Pod   *)
(* that is still there, and a Pod runs only while the result is not its    *)
(* own, nor one the other's turn follows.                                  *)
InTurn(i) ==
    mbsc # None =>
        /\ \A a \in Actions : mbsc.status[i] = Result(a, FALSE) => InPhase(i, a, "Failed")
        /\ InPhase(i, "BuildImage", "Running") =>
              mbsc.status[i] \in {None, Result("SignImage", TRUE)} \/ InPhase(i, "SignImage", "Failed")
        /\ InPhase(i, "SignImage", "Running") =>
              mbsc.status[i] = Result("BuildImage", TRUE) \/ InPhase(i, "BuildImage", "Failed")

(* The only image of the MIC, which is built.                              *)
Built(i) == Only(i) /\ mic.spec[i].build # 0

OrderInv ==
    AsCreated => /\ SpecSeen /\ OneMBSC /\ JobsMade
                 /\ \A i \in Images : Built(i) => SignAfterBuild(i) /\ InTurn(i)

(* Results are not None, and differ when they should.                      *)
LEMMA Results ==
    /\ \A a \in Actions, ok \in BOOLEAN : Result(a, ok) # None
    /\ \A a, c \in Actions, x, y \in BOOLEAN : Result(a, x) = Result(c, y) => a = c /\ x = y
<1>1. ASSUME NEW a \in Actions, NEW ok \in BOOLEAN PROVE Result(a, ok) # None
  <2>1. Result(a, ok) \in [action : Actions, ok : BOOLEAN]
    BY DEF Result
  <2> QED BY <2>1, NoneAssumption
<1>2. ASSUME NEW a \in Actions, NEW c \in Actions, NEW x \in BOOLEAN, NEW y \in BOOLEAN,
             Result(a, x) = Result(c, y)
      PROVE  a = c /\ x = y
  <2>1. /\ Result(a, x).action = a /\ Result(a, x).ok = x
        /\ Result(c, y).action = c /\ Result(c, y).ok = y
    BY DEF Result
  <2> QED BY <1>2, <2>1
<1> QED BY <1>1, <1>2

(* A step that touches none of the objects concerned.                      *)
LEMMA OrderKept ==
    ASSUME OrderInv, UNCHANGED <<mic, mbsc, jobs, cache>>
    PROVE  OrderInv'
<1> SUFFICES ASSUME AsCreated'
             PROVE  /\ SpecSeen' /\ OneMBSC' /\ JobsMade'
                    /\ \A i \in Images : Built(i)' => SignAfterBuild(i)' /\ InTurn(i)'
  BY DEF OrderInv
<1>1. /\ SpecSeen /\ OneMBSC /\ JobsMade
      /\ \A i \in Images : Built(i) => SignAfterBuild(i) /\ InTurn(i)
  BY DEF OrderInv, AsCreated
<1>2. SpecSeen' /\ OneMBSC'
  BY <1>1 DEF SpecSeen, OneMBSC, Asks
<1>3. JobsMade'
  BY <1>1 DEF JobsMade, JobMade, JobSeen
<1>4. ASSUME NEW i \in Images, Built(i)' PROVE SignAfterBuild(i)' /\ InTurn(i)'
  <2>1. Built(i)
    BY <1>4 DEF Built, Only
  <2>2. SignAfterBuild(i)'
    BY <1>1, <2>1 DEF SignAfterBuild, SignsSeen, ResultSeen
  <2>3. InTurn(i)'
    BY <1>1, <2>1 DEF InTurn, InPhase
  <2> QED BY <2>2, <2>3
<1> QED BY <1>2, <1>3, <1>4

-----------------------------------------------------------------------------
(* The MIC controller                                                      *)

(* A state of the MIC the controller may write or hold.                    *)
MICInTurn(m) ==
    /\ m \in MIC /\ m.spec = mic.spec /\ m.statusGen = 0
    /\ \A i \in Images : Built(i) /\ m.states[i] = "NeedsSigning" => ResultSeen(i)

LEMMA PatchInTurn ==
    ASSUME NEW live, NEW obj, NEW states \in StateMap, MICInTurn(live),
           \A i \in Images : Built(i) /\ states[i] = "NeedsSigning" => ResultSeen(i)
    PROVE  MICInTurn(Patch(live, obj, states))
<1> DEFINE m == Patch(live, obj, states)
<1>1. /\ m \in MIC /\ m.spec = live.spec /\ m.statusGen = live.statusGen
      /\ m.states = live.states \/ m.states = states
  BY DEF Patch, MIC, StateMap, MICInTurn
<1> HIDE DEF m
<1> QED BY <1>1 DEF MICInTurn, m

(* A pull never says that an image with a build section needs signing.     *)
LEMMA PullInTurn ==
    ASSUME Types, Sound, SpecSeen, MICInTurn(cache.mic), NEW states \in StatesByPull(cache.mic),
           NEW i \in Images, Built(i), states[i] = "NeedsSigning"
    PROVE  ResultSeen(i)
<1> DEFINE ps == {p \in cache.pull : p.image = i /\ cache.mic.spec[i] # None /\ Finished(p)}
           s == cache.mic.spec[i]
           old == cache.mic.states[i]
<1>1. s.build # 0 /\ (old = "NeedsSigning" => ResultSeen(i))
  BY DEF SpecSeen, Built, MICInTurn
<1>2. CASE states[i] = old
  BY <1>1, <1>2
<1>3. CASE \E p \in ps : states[i] = StateByPull(p, s, old)
  <2>1. PICK p \in ps : states[i] = StateByPull(p, s, old)
    BY <1>3
  <2> HIDE DEF s, old
  <2>2. PullStatus(p) \in {"Success", "Failed"}
    BY DEF Finished
  <2>3. states[i] \in {"Exists", "NeedsBuilding"}
    BY <1>1, <2>1, <2>2 DEF StateByPull
  <2> QED BY <2>3
<1> QED BY <1>2, <1>3 DEF StatesByPull

(* What is recorded of the two updates of the status.                      *)
UpdateInTurn(r) == MICInTurn(r.live) /\ MICInTurn(r.obj)

LEMMA ByPullInTurn ==
    ASSUME Types, Sound, SpecSeen, MICInTurn(mic), MICInTurn(cache.mic),
           NEW states \in StatesByPull(cache.mic)
    PROVE  UpdateInTurn(updateStatusByPullPods(states))
<1> DEFINE m == Patch(mic, cache.mic, states)
<1>1. states \in StateMap
  BY PullStateSound
<1>2. MICInTurn(m)
  BY <1>1, PullInTurn, PatchInTurn
<1> HIDE DEF m
<1>3. \/ updateStatusByPullPods(states) = [live |-> mic, obj |-> cache.mic]
      \/ updateStatusByPullPods(states) = [live |-> m, obj |-> m]
  BY DEF updateStatusByPullPods, m
<1> QED BY <1>2, <1>3 DEF UpdateInTurn

LEMMA ByMBSCInTurn ==
    ASSUME Types, NEW r, UpdateInTurn(r)
    PROVE  UpdateInTurn(updateStatusByMBSC(r))
<1> DEFINE states == [i \in Images |->
                         StateByMBSC(cache.mbsc.status[i], r.obj.spec[i], r.obj.states[i])]
           m == Patch(r.live, r.obj, states)
<1>0. CASE cache.mbsc = None
  BY <1>0 DEF updateStatusByMBSC
<1>1. CASE cache.mbsc # None
  <2>1. ASSUME NEW i \in Images
        PROVE  /\ states[i] \in States \cup {None}
               /\ Built(i) /\ states[i] = "NeedsSigning" => ResultSeen(i)
    <3> DEFINE b == cache.mbsc.status[i]
               s == r.obj.spec[i]
               old == r.obj.states[i]
    <3>1. /\ old \in States \cup {None}
          /\ Built(i) /\ old = "NeedsSigning" => ResultSeen(i)
      BY DEF UpdateInTurn, MICInTurn, MIC
    <3>2. b # None => ResultSeen(i)
      BY <1>1 DEF ResultSeen
    <3>3. Built(i) => s # None
      BY DEF UpdateInTurn, MICInTurn, Built, Only
    <3>4. states[i] = StateByMBSC(b, s, old)
      OBVIOUS
    <3> HIDE DEF states, b, s, old
    <3>5. \/ (s = None \/ b = None) /\ states[i] = old
          \/ b # None /\ states[i] \in {"DoesNotExist", "NeedsSigning", "Exists"}
      BY <3>4 DEF StateByMBSC
    <3> QED BY <3>1, <3>2, <3>3, <3>5 DEF States
  <2>2. states \in StateMap
    <3>1. states = [i \in Images |-> states[i]]
      OBVIOUS
    <3> HIDE DEF states
    <3> QED BY <2>1, <3>1 DEF StateMap
  <2> HIDE DEF states
  <2>3. MICInTurn(m)
    BY <2>1, <2>2, PatchInTurn DEF UpdateInTurn
  <2>4. updateStatusByMBSC(r) = [live |-> m, obj |-> m]
    BY <1>1 DEF updateStatusByMBSC, states
  <2> HIDE DEF m
  <2> QED BY <2>3, <2>4 DEF UpdateInTurn
<1> QED BY <1>0, <1>1

(* What setModuleImageSpec writes for an image.                            *)
Entry(obj, i) == [action |-> ActionFor(obj.states[i]), sec |-> obj.spec[i]]

(* The entries it writes are those of the MIC, and a sign follows a        *)
(* result.                                                                 *)
LEMMA CreateOrPatchInTurn ==
    ASSUME Types, OneMBSC, NEW obj, MICInTurn(obj), NEW failed,
           CreateOrPatch(obj, MBSCCalls(obj), failed),
           \A i \in Images : Built(i) => SignAfterBuild(i)
    PROVE  /\ mbsc # None => mbsc' # None /\ mbsc'.uid = mbsc.uid /\ mbsc'.status = mbsc.status
           /\ mbsc = None /\ mbsc' # None =>
                 cache.mbsc = None /\ \A i \in Images : mbsc'.status[i] = None
           /\ mbsc' # None => \A i \in Images :
                 /\ mbsc'.spec[i] # None => mic.spec[i] # None /\ mbsc'.spec[i].sec = mic.spec[i]
                 /\ Built(i) /\ mbsc'.spec[i] # None /\ mbsc'.spec[i].action = "SignImage"
                        => ResultSeen(i)
<1>0. mbsc \in MBSC \cup {None} /\ cache.mbsc \in MBSC \cup {None}
  BY DEF Types, Cache
<1>1. ASSUME NEW i \in MBSCCalls(obj)
      PROVE  /\ i \in Images /\ mic.spec[i] # None /\ Entry(obj, i).sec = mic.spec[i]
             /\ Built(i) /\ Entry(obj, i).action = "SignImage" => ResultSeen(i)
  BY DEF MBSCCalls, MICInTurn, Entry, ActionFor
<1>2. ASSUME NEW spec, NEW kept \in SUBSET MBSCCalls(obj), NEW i \in Images
      PROVE  setModuleImageSpec(spec, obj, kept)[i] = IF i \in kept THEN Entry(obj, i) ELSE spec[i]
  BY DEF setModuleImageSpec, Entry
<1>3. CASE mbsc' = mbsc
  BY <1>3 DEF OneMBSC, Asks, SignAfterBuild, SignsSeen
<1>4. ASSUME NEW kept \in SUBSET MBSCCalls(obj), mbsc = None, cache.mbsc = None,
             mbsc' = [uid |-> uids + 1, status |-> NoStates,
                      spec |-> setModuleImageSpec(NoStates, obj, kept)]
      PROVE  /\ \A i \in Images : mbsc'.status[i] = None
             /\ \A i \in Images :
                   mbsc'.spec[i] = IF i \in kept THEN Entry(obj, i) ELSE None
  <2> DEFINE sp == setModuleImageSpec(NoStates, obj, kept)
  <2>1. \A i \in Images : sp[i] = IF i \in kept THEN Entry(obj, i) ELSE NoStates[i]
    BY <1>2
  <2>2. \A i \in Images : NoStates[i] = None
    BY DEF NoStates
  <2>3. mbsc' = [uid |-> uids + 1, status |-> NoStates, spec |-> sp]
    BY <1>4
  <2> HIDE DEF sp
  <2>4. mbsc'.status = NoStates /\ mbsc'.spec = sp
    BY <2>3
  <2> QED BY <2>1, <2>2, <2>4
<1>5. ASSUME NEW kept \in SUBSET MBSCCalls(obj), mbsc # None, cache.mbsc # None,
             mbsc' = [mbsc EXCEPT !.spec = setModuleImageSpec(cache.mbsc.spec, obj, kept)]
      PROVE  /\ mbsc' # None /\ mbsc'.uid = mbsc.uid /\ mbsc'.status = mbsc.status
             /\ \A i \in Images :
                   mbsc'.spec[i] = IF i \in kept THEN Entry(obj, i) ELSE cache.mbsc.spec[i]
  <2> DEFINE sp == setModuleImageSpec(cache.mbsc.spec, obj, kept)
  <2>1. \A i \in Images : sp[i] = IF i \in kept THEN Entry(obj, i) ELSE cache.mbsc.spec[i]
    BY <1>2
  <2>2. mbsc' = [mbsc EXCEPT !.spec = sp] /\ mbsc \in MBSC
    BY <1>0, <1>5
  <2> HIDE DEF sp
  <2>3. mbsc'.spec = sp /\ mbsc'.uid = mbsc.uid /\ mbsc'.status = mbsc.status
    BY <2>2 DEF MBSC
  <2>4. mbsc' # None
    <3>1. mbsc' \in MBSC
      <4>1. sp \in [Images -> [action : Actions, sec : Specs] \cup {None}]
        <5>1. sp = [i \in Images |-> sp[i]]
          BY DEF setModuleImageSpec, sp
        <5>2. ASSUME NEW i \in Images PROVE sp[i] \in [action : Actions, sec : Specs] \cup {None}
          <6>1. cache.mbsc.spec[i] \in [action : Actions, sec : Specs] \cup {None}
            BY <1>0, <1>5 DEF MBSC
          <6>2. i \in MBSCCalls(obj) => Entry(obj, i) \in [action : Actions, sec : Specs]
            <7>1. i \in MBSCCalls(obj) => obj.spec[i] \in Specs
              BY DEF MBSCCalls, MICInTurn, MIC
            <7> QED BY <7>1 DEF Entry, ActionFor, Actions
          <6> QED BY <2>1, <6>1, <6>2
        <5> QED BY <5>1, <5>2
      <4> QED BY <2>2, <4>1 DEF MBSC
    <3> QED BY <3>1, NoneAssumption
  <2> QED BY <2>1, <2>3, <2>4
<1>6. CASE \E kept \in SUBSET MBSCCalls(obj) :
              /\ mbsc = None /\ cache.mbsc = None
              /\ mbsc' = [uid |-> uids + 1, status |-> NoStates,
                          spec |-> setModuleImageSpec(NoStates, obj, kept)]
  <2>1. PICK kept \in SUBSET MBSCCalls(obj) :
            /\ \A i \in Images : mbsc'.status[i] = None
            /\ \A i \in Images : mbsc'.spec[i] = IF i \in kept THEN Entry(obj, i) ELSE None
    BY <1>4, <1>6
  <2> QED BY <1>1, <1>6, <2>1
<1>7. CASE \E kept \in SUBSET MBSCCalls(obj) :
              /\ mbsc # None /\ cache.mbsc # None
              /\ mbsc' = [mbsc EXCEPT !.spec = setModuleImageSpec(cache.mbsc.spec, obj, kept)]
  <2>1. PICK kept \in SUBSET MBSCCalls(obj) :
            /\ mbsc' # None /\ mbsc'.uid = mbsc.uid /\ mbsc'.status = mbsc.status
            /\ \A i \in Images :
                  mbsc'.spec[i] = IF i \in kept THEN Entry(obj, i) ELSE cache.mbsc.spec[i]
    BY <1>5, <1>7
  <2> QED BY <1>1, <1>7, <2>1 DEF OneMBSC, Asks, SignAfterBuild, SignsSeen
<1> QED BY <1>3, <1>6, <1>7, CreateOrPatchKinds

(* A step of the MIC controller.                                           *)
MBSCWritten ==
    /\ mbsc # None => mbsc' # None /\ mbsc'.uid = mbsc.uid /\ mbsc'.status = mbsc.status
    /\ mbsc = None /\ mbsc' # None =>
          cache.mbsc = None /\ \A i \in Images : mbsc'.status[i] = None
    /\ mbsc' # None => \A i \in Images :
          /\ mbsc'.spec[i] # None => mic.spec[i] # None /\ mbsc'.spec[i].sec = mic.spec[i]
          /\ Built(i) /\ mbsc'.spec[i] # None /\ mbsc'.spec[i].action = "SignImage"
                 => ResultSeen(i)

LEMMA MICOrder ==
    ASSUME OrderInv, AsCreated, UNCHANGED <<jobs, cache>>, NEW m, m = mic', MICInTurn(m), MBSCWritten
    PROVE  OrderInv'
<1> SUFFICES /\ SpecSeen' /\ OneMBSC' /\ JobsMade'
             /\ \A i \in Images : Built(i)' => SignAfterBuild(i)' /\ InTurn(i)'
  BY DEF OrderInv
<1>1. /\ SpecSeen /\ OneMBSC /\ JobsMade
      /\ \A i \in Images : Built(i) => SignAfterBuild(i) /\ InTurn(i)
  BY DEF OrderInv
<1>2. mic'.spec = mic.spec /\ mic'.statusGen = 0
  BY DEF MICInTurn
<1>3. SpecSeen' /\ OneMBSC'
  BY <1>1, <1>2 DEF SpecSeen, OneMBSC, Asks, MBSCWritten
<1>4. JobsMade'
  BY <1>1, <1>2 DEF JobsMade, JobMade, JobSeen, MBSCWritten
<1>5. ASSUME NEW i \in Images, Built(i)' PROVE SignAfterBuild(i)' /\ InTurn(i)'
  <2>1. Built(i)
    BY <1>2, <1>5 DEF Built, Only
  <2>2. ResultSeen(i)' <=> ResultSeen(i)
    BY DEF ResultSeen
  <2>3. mic'.states[i] = "NeedsSigning" => ResultSeen(i)
    BY <2>1 DEF MICInTurn
  <2>4. SignAfterBuild(i)'
    <3>1. SignsSeen(mbsc, i)' /\ SignsSeen(cache.mbsc, i)'
      BY <1>1, <2>1, <2>2 DEF SignAfterBuild, SignsSeen, MBSCWritten
    <3>2. ResultSeen(i) => mbsc'.status[i] # None
      BY <1>1, <2>1 DEF SignAfterBuild, ResultSeen, OneMBSC, MBSCWritten
    <3> QED BY <1>1, <2>1, <2>2, <2>3, <3>1, <3>2 DEF SignAfterBuild
  <2>5. InTurn(i)'
    <3>1. CASE mbsc # None
      BY <1>1, <2>1, <3>1 DEF InTurn, InPhase, MBSCWritten
    <3>2. CASE mbsc = None /\ mbsc' # None
      <4>1. \A a \in Actions : jobs[<<i, a>>] = None
        BY <1>1, <3>2, JobKey DEF JobsMade, JobMade
      <4>2. \A a \in Actions : mbsc'.status[i] # Result(a, FALSE)
        BY <3>2, Results DEF MBSCWritten
      <4> QED BY <4>1, <4>2 DEF InTurn, InPhase, Actions
    <3>3. CASE mbsc' = None
      BY <3>3 DEF InTurn
    <3> QED BY <3>1, <3>2, <3>3
  <2> QED BY <2>4, <2>5
<1> QED BY <1>3, <1>4, <1>5

(* What the MIC controller holds at the start of a Reconcile.              *)
LEMMA MICStarts ==
    ASSUME Types, OrderInv, AsCreated
    PROVE  /\ SpecSeen /\ OneMBSC /\ MICInTurn(mic) /\ MICInTurn(cache.mic)
           /\ \A i \in Images : Built(i) => SignAfterBuild(i)
<1>1. /\ SpecSeen /\ OneMBSC
      /\ \A i \in Images : Built(i) => SignAfterBuild(i)
  BY DEF OrderInv
<1>2. mic \in MIC /\ cache.mic \in MIC
  BY DEF Types, Cache
<1> QED BY <1>1, <1>2 DEF MICInTurn, SpecSeen, SignAfterBuild

LEMMA MICReconcileOrder ==
    ASSUME ImageInv, OrderInv, AsCreated, MICReconcile
    PROVE  OrderInv'
<1> USE DEF ImageInv
<1>1. PICK states \in StatesByPull(cache.mic), failed \in BOOLEAN :
          LET r == updateStatusByMBSC(updateStatusByPullPods(states))
          IN mic' = r.live /\ CreateOrPatch(r.obj, MBSCCalls(r.obj), failed)
  BY DEF MICReconcile
<1> DEFINE r == updateStatusByMBSC(updateStatusByPullPods(states))
<1>2. UpdateInTurn(r)
  BY MICStarts, ByPullInTurn, ByMBSCInTurn
<1>3. mic' = r.live /\ CreateOrPatch(r.obj, MBSCCalls(r.obj), failed) /\ UNCHANGED <<jobs, cache>>
  BY <1>1 DEF MICReconcile
<1> HIDE DEF r
<1>4. MICInTurn(r.live) /\ MICInTurn(r.obj)
  BY <1>2 DEF UpdateInTurn
<1>5. MBSCWritten
  BY <1>3, <1>4, MICStarts, CreateOrPatchInTurn DEF MBSCWritten
<1> QED BY <1>3, <1>4, <1>5, MICOrder

LEMMA MICStopsOrder ==
    ASSUME ImageInv, OrderInv, AsCreated, MICStops
    PROVE  OrderInv'
<1> USE DEF ImageInv
<1>1. PICK states \in StatesByPull(cache.mic) :
          LET r == updateStatusByPullPods(states)
          IN mic' \in {r.live, updateStatusByMBSC(r).live}
  BY DEF MICStops
<1> DEFINE r == updateStatusByPullPods(states)
<1>2. UpdateInTurn(r) /\ UpdateInTurn(updateStatusByMBSC(r))
  BY MICStarts, ByPullInTurn, ByMBSCInTurn
<1>3. mic' \in {r.live, updateStatusByMBSC(r).live} /\ UNCHANGED <<jobs, cache, mbsc>>
  BY <1>1 DEF MICStops
<1> HIDE DEF r
<1>4. PICK m : m = mic' /\ MICInTurn(m)
  BY <1>2, <1>3 DEF UpdateInTurn
<1>5. MBSCWritten
  BY <1>3, MICStarts DEF MBSCWritten, OneMBSC, Asks, SignAfterBuild, SignsSeen
<1> QED BY <1>3, <1>4, <1>5, MICOrder

-----------------------------------------------------------------------------
(* The MBSC controller                                                     *)

(* Of the only image a new result is that of a cached Pod that has ended.  *)
LEMMA StatusInTurn ==
    ASSUME Types, OneMBSC, JobsMade, mbsc # None, cache.mbsc # None, NEW i \in Images, Only(i)
    PROVE  \/ updateStatus.status[i] = mbsc.status[i]
           \/ \E a \in Actions :
                 /\ cache.jobs[<<i, a>>] # None /\ cache.jobs[<<i, a>>].phase # "Running"
                 /\ updateStatus.status[i] = Result(a, cache.jobs[<<i, a>>].phase = "Succeeded")
<1> DEFINE status == [n \in Images |-> StatusByJob(cache.mbsc, n)]
           st == IF status = cache.mbsc.status THEN mbsc.status ELSE status
<1>0. mbsc \in MBSC /\ cache.mbsc \in MBSC
  BY DEF Types, Cache
<1>1. updateStatus.status = st
  <2>1. updateStatus = [mbsc EXCEPT !.status = st]
    BY DEF updateStatus
  <2> HIDE DEF st
  <2> QED BY <1>0, <2>1 DEF MBSC
<1>2. CASE status = cache.mbsc.status
  BY <1>1, <1>2
<1>3. CASE status # cache.mbsc.status
  <2>1. updateStatus.status[i] = StatusByJob(cache.mbsc, i)
    BY <1>1, <1>3
  <2>2. ASSUME NEW n \in Images, n # i PROVE StatusByJob(cache.mbsc, n) = cache.mbsc.status[n]
    <3>1. cache.mbsc.spec[n] = None
      BY <2>2 DEF OneMBSC, Asks, Only
    <3> QED BY <3>1 DEF StatusByJob
  <2>3. StatusByJob(cache.mbsc, i) # cache.mbsc.status[i]
    <3>1. cache.mbsc.status = [n \in Images |-> cache.mbsc.status[n]]
      BY <1>0 DEF MBSC
    <3> QED BY <1>3, <2>2, <3>1
  <2> DEFINE e == cache.mbsc.spec[i]
             j == IF e = None THEN None ELSE OwnedJob(cache.mbsc.uid, i, e.action)
  <2>4. /\ j # None /\ j.phase # "Running"
        /\ StatusByJob(cache.mbsc, i) = [action |-> e.action, ok |-> j.phase = "Succeeded"]
    BY <2>3 DEF StatusByJob
  <2>5. e # None /\ e.action \in Actions /\ j = cache.jobs[<<i, e.action>>]
    <3>1. e \in [action : Actions, sec : Specs] \cup {None}
      BY <1>0 DEF MBSC
    <3> QED BY <2>4, <3>1 DEF OwnedJob
  <2> HIDE DEF e, j
  <2> QED BY <2>1, <2>4, <2>5 DEF Result
<1> QED BY <1>2, <1>3

(* Sync makes Pods where there are none, and deletes none.                 *)
LEMMA SyncInTurn ==
    ASSUME Types, SpecSeen, OneMBSC, JobsMade, mbsc # None,
           NEW obj \in MBSC, obj.uid = mbsc.uid, obj.spec = mbsc.spec,
           NEW is \in SUBSET (SyncCalls(obj) \ Panics(obj)), NEW k \in Images \X Actions
    PROVE  \/ SyncAll(obj, is)[k] = jobs[k]
           \/ /\ jobs[k] = None /\ cache.jobs[k] = None
              /\ mbsc.spec[k[1]] # None /\ mbsc.spec[k[1]].action = k[2]
              /\ obj.status[k[1]] # Result(k[2], TRUE)
              /\ Section(k[2], mic.spec[k[1]]) # 0
              /\ SyncAll(obj, is)[k] =
                    [uid |-> mbsc.uid, hash |-> HashOf(k[2], mic.spec[k[1]]),
                     phase |-> "Running", deleting |-> FALSE]
<1>1. SyncAll(obj, is)[k] = IF k[1] \in is /\ obj.spec[k[1]].action = k[2] THEN Sync(obj, k) ELSE jobs[k]
  BY DEF SyncAll
<1>2. CASE ~(k[1] \in is /\ obj.spec[k[1]].action = k[2])
  BY <1>1, <1>2
<1>3. CASE k[1] \in is /\ obj.spec[k[1]].action = k[2]
  <2> DEFINE e == obj.spec[k[1]]
             hash == HashOf(k[2], e.sec)
             cached == OwnedJob(obj.uid, k[1], k[2])
  <2>1. /\ k[1] \in Images /\ k[2] \in Actions /\ k = <<k[1], k[2]>>
    OBVIOUS
  <2>2. /\ e # None /\ e.action = k[2] /\ e.sec = mic.spec[k[1]]
        /\ obj.status[k[1]] # Result(k[2], TRUE) /\ Section(k[2], e.sec) # 0
    <3>1. k[1] \in SyncCalls(obj) /\ k[1] \notin Panics(obj)
      BY <1>3
    <3>2. e # None /\ obj.status[k[1]] # Result(k[2], TRUE) /\ Section(k[2], e.sec) # 0
      BY <1>3, <3>1 DEF SyncCalls, Panics, Result
    <3> QED BY <1>3, <2>1, <3>2 DEF OneMBSC, Asks
  <2>3. cached = cache.jobs[k]
    BY <2>1 DEF OwnedJob, JobsMade, JobMade
  <2>4. cached # None => cached.hash = hash
    BY <2>2, <2>3 DEF JobsMade, JobMade
  <2>5. SyncAll(obj, is)[k] =
            IF cached = None /\ jobs[k] = None
            THEN [uid |-> obj.uid, hash |-> hash, phase |-> "Running", deleting |-> FALSE]
            ELSE IF cached # None /\ cached.hash # hash /\ jobs[k] # None
            THEN [jobs[k] EXCEPT !.deleting = TRUE]
            ELSE jobs[k]
    BY <1>1, <1>3 DEF Sync
  <2> HIDE DEF cached, hash
  <2>6. CASE cached = None /\ jobs[k] = None
    <3>1. SyncAll(obj, is)[k] = [uid |-> obj.uid, hash |-> hash, phase |-> "Running", deleting |-> FALSE]
      BY <2>5, <2>6
    <3>2. hash = HashOf(k[2], mic.spec[k[1]])
      BY <2>2 DEF hash
    <3> QED BY <2>2, <2>3, <2>6, <3>1, <3>2
  <2>7. CASE ~(cached = None /\ jobs[k] = None)
    BY <2>4, <2>5, <2>7
  <2> QED BY <2>6, <2>7
<1> QED BY <1>2, <1>3

LEMMA MBSCReconcileOrder ==
    ASSUME ImageInv, OrderInv, AsCreated, MBSCReconcile
    PROVE  OrderInv'
<1> USE DEF ImageInv
<1> SUFFICES /\ SpecSeen' /\ OneMBSC' /\ JobsMade'
             /\ \A i \in Images : Built(i)' => SignAfterBuild(i)' /\ InTurn(i)'
  BY DEF OrderInv
<1>1. /\ SpecSeen /\ OneMBSC /\ JobsMade
      /\ \A i \in Images : Built(i) => SignAfterBuild(i) /\ InTurn(i)
  BY DEF OrderInv
<1>2. mbsc # None /\ cache.mbsc # None /\ mbsc' = updateStatus /\ mic' = mic /\ cache' = cache
  BY DEF MBSCReconcile
<1>3. mbsc' \in MBSC /\ mbsc'.uid = mbsc.uid /\ mbsc'.spec = mbsc.spec /\ mbsc' # None
  BY <1>2, UpdateStatusSound, NoneAssumption
<1>4. PICK b : b = mbsc'
  OBVIOUS
<1>5. PICK is \in SUBSET (SyncCalls(b) \ Panics(b)) : jobs' = SyncAll(b, is)
  <2>1. \E is \in SUBSET (SyncCalls(mbsc') \ Panics(mbsc')) : jobs' = SyncAll(mbsc', is)
    BY DEF MBSCReconcile
  <2> QED BY <2>1, <1>4
<1>6. ASSUME NEW k \in Images \X Actions
      PROVE  \/ jobs'[k] = jobs[k]
             \/ /\ jobs[k] = None /\ cache.jobs[k] = None
                /\ mbsc.spec[k[1]] # None /\ mbsc.spec[k[1]].action = k[2]
                /\ mbsc'.status[k[1]] # Result(k[2], TRUE)
                /\ Section(k[2], mic.spec[k[1]]) # 0
                /\ jobs'[k] = [uid |-> mbsc.uid, hash |-> HashOf(k[2], mic.spec[k[1]]),
                               phase |-> "Running", deleting |-> FALSE]
  <2>1. b \in MBSC /\ b.uid = mbsc.uid /\ b.spec = mbsc.spec
    BY <1>3, <1>4
  <2>2. Types
    OBVIOUS
  <2>3. \/ SyncAll(b, is)[k] = jobs[k]
        \/ /\ jobs[k] = None /\ cache.jobs[k] = None
           /\ mbsc.spec[k[1]] # None /\ mbsc.spec[k[1]].action = k[2]
           /\ b.status[k[1]] # Result(k[2], TRUE)
           /\ Section(k[2], mic.spec[k[1]]) # 0
           /\ SyncAll(b, is)[k] =
                 [uid |-> mbsc.uid, hash |-> HashOf(k[2], mic.spec[k[1]]),
                  phase |-> "Running", deleting |-> FALSE]
    BY <1>1, <1>2, <2>1, <2>2, SyncInTurn
  <2> QED BY <1>4, <1>5, <2>3
<1>7. SpecSeen' /\ OneMBSC'
  BY <1>1, <1>2, <1>3 DEF SpecSeen, OneMBSC, Asks
<1>8. JobsMade'
  <2> SUFFICES ASSUME NEW k \in Images \X Actions
               PROVE  JobMade(k, jobs[k])' /\ JobMade(k, cache.jobs[k])' /\ JobSeen(k)'
    BY DEF JobsMade
  <2>0. JobMade(k, jobs[k]) /\ JobMade(k, cache.jobs[k]) /\ JobSeen(k)
    BY <1>1 DEF JobsMade
  <2>1. JobMade(k, cache.jobs[k])'
    BY <1>2, <1>3, <2>0 DEF JobMade
  <2>2. CASE jobs'[k] = jobs[k]
    BY <1>2, <1>3, <2>0, <2>1, <2>2 DEF JobMade, JobSeen
  <2>3. CASE jobs'[k] # jobs[k]
    <3>1. /\ cache.jobs[k] = None /\ Section(k[2], mic.spec[k[1]]) # 0
          /\ jobs'[k] = [uid |-> mbsc.uid, hash |-> HashOf(k[2], mic.spec[k[1]]),
                         phase |-> "Running", deleting |-> FALSE]
      BY <1>6, <2>3
    <3> QED BY <1>2, <1>3, <2>1, <3>1 DEF JobMade, JobSeen
  <2> QED BY <2>2, <2>3
<1>9. ASSUME NEW i \in Images, Built(i)' PROVE SignAfterBuild(i)' /\ InTurn(i)'
  <2>0. Built(i) /\ Only(i) /\ SignAfterBuild(i) /\ InTurn(i)
    BY <1>1, <1>2, <1>9 DEF Built, Only
  <2> DEFINE st == mbsc'.status[i]
             old == mbsc.status[i]
  <2>1. \/ st = old
        \/ \E a \in Actions :
              /\ cache.jobs[<<i, a>>] # None /\ cache.jobs[<<i, a>>].phase # "Running"
              /\ st = Result(a, cache.jobs[<<i, a>>].phase = "Succeeded")
    BY <1>1, <1>2, <2>0, StatusInTurn
  <2>2. ASSUME NEW a \in Actions
        PROVE  /\ JobSeen(<<i, a>>)
               /\ \/ jobs'[<<i, a>>] = jobs[<<i, a>>]
                  \/ /\ jobs[<<i, a>>] = None
                     /\ mbsc.spec[i] # None /\ mbsc.spec[i].action = a /\ st # Result(a, TRUE)
    <3>1. <<i, a>> \in Images \X Actions /\ <<i, a>>[1] = i /\ <<i, a>>[2] = a
      BY JobKey
    <3>2. JobSeen(<<i, a>>)
      BY <1>1, <3>1 DEF JobsMade
    <3>3. PICK k \in Images \X Actions : k = <<i, a>> /\ k[1] = i /\ k[2] = a
      BY <3>1
    <3> QED BY <3>2, <3>3, <1>6
  <2>3. st \in [action : Actions, ok : BOOLEAN] \cup {None}
    BY <1>3 DEF MBSC
  <2>4. \/ st = None
        \/ \E a \in Actions, ok \in BOOLEAN : st = Result(a, ok)
    <3>1. CASE st \in [action : Actions, ok : BOOLEAN]
      <4>1. st = [action |-> st.action, ok |-> st.ok] /\ st.action \in Actions /\ st.ok \in BOOLEAN
        BY <3>1
      <4> QED BY <4>1 DEF Result
    <3> QED BY <2>3, <3>1
  <2> HIDE DEF st, old
  <2>5. /\ \A a \in Actions : st = Result(a, FALSE) => InPhase(i, a, "Failed")
        /\ InPhase(i, "BuildImage", "Running") =>
              st \in {None, Result("SignImage", TRUE)} \/ InPhase(i, "SignImage", "Failed")
        /\ InPhase(i, "SignImage", "Running") =>
              st = Result("BuildImage", TRUE) \/ InPhase(i, "BuildImage", "Failed")
    <3>1. CASE st = old
      BY <1>2, <2>0, <3>1 DEF InTurn, old
    <3>2. ASSUME NEW a \in Actions, cache.jobs[<<i, a>>] # None,
                 cache.jobs[<<i, a>>].phase # "Running",
                 st = Result(a, cache.jobs[<<i, a>>].phase = "Succeeded")
          PROVE  /\ ~InPhase(i, a, "Running")
                 /\ \/ st = Result(a, TRUE)
                    \/ st = Result(a, FALSE) /\ InPhase(i, a, "Failed")
      <4>1. cache.jobs[<<i, a>>].phase \in {"Succeeded", "Failed"}
        BY <3>2, JobKey DEF Types, Cache, JobMap, Job
      <4>2. ~InPhase(i, a, "Running")
        BY <2>2, <3>2 DEF JobSeen, InPhase
      <4>3. CASE cache.jobs[<<i, a>>].phase = "Succeeded"
        <5>1. st = Result(a, TRUE)
          BY <3>2, <4>3
        <5> QED BY <4>2, <5>1
      <4>4. CASE cache.jobs[<<i, a>>].phase = "Failed"
        <5>1. st = Result(a, FALSE)
          BY <3>2, <4>4
        <5>2. InPhase(i, a, "Failed")
          BY <2>2, <3>2, <4>4 DEF JobSeen, InPhase
        <5> QED BY <4>2, <5>1, <5>2
      <4> QED BY <4>1, <4>3, <4>4
    <3>3. CASE st # old
      <4>1. PICK a \in Actions :
                /\ ~InPhase(i, a, "Running")
                /\ \/ st = Result(a, TRUE)
                   \/ st = Result(a, FALSE) /\ InPhase(i, a, "Failed")
        BY <2>1, <3>2, <3>3
      <4>2. \A c \in Actions : st = Result(c, FALSE) => InPhase(i, c, "Failed")
        BY <4>1, Results
      <4> QED BY <4>1, <4>2 DEF Actions
    <3> QED BY <3>1, <3>3
  <2>6. ASSUME NEW a \in Actions
        PROVE  /\ InPhase(i, a, "Failed") => InPhase(i, a, "Failed")'
               /\ InPhase(i, a, "Running")' /\ ~InPhase(i, a, "Running") =>
                     /\ jobs[<<i, a>>] = None /\ st # Result(a, TRUE)
                     /\ mbsc.spec[i] # None /\ mbsc.spec[i].action = a
    BY <2>2 DEF InPhase
  <2>7. ResultSeen(i) => st # None
    <3>1. ResultSeen(i) => old # None
      BY <2>0 DEF SignAfterBuild, old
    <3>2. CASE st = old
      BY <3>1, <3>2
    <3>3. CASE st # old
      <4>1. PICK a \in Actions : st = Result(a, cache.jobs[<<i, a>>].phase = "Succeeded")
        BY <2>1, <3>3
      <4>2. (cache.jobs[<<i, a>>].phase = "Succeeded") \in BOOLEAN
        OBVIOUS
      <4> QED BY <4>1, <4>2, Results
    <3> QED BY <3>2, <3>3
  <2>8. SignAfterBuild(i)'
    <3>1. ResultSeen(i)' <=> ResultSeen(i)
      BY <1>2 DEF ResultSeen
    <3>2. SignsSeen(mbsc, i)' /\ SignsSeen(cache.mbsc, i)'
      BY <1>2, <1>3, <2>0, <3>1 DEF SignAfterBuild, SignsSeen
    <3>3. ResultSeen(i) => mbsc'.status[i] # None
      BY <2>7 DEF st
    <3> QED BY <1>2, <2>0, <3>1, <3>2, <3>3 DEF SignAfterBuild
  <2>9. InTurn(i)'
    <3>1. \A a \in Actions : st = Result(a, FALSE) => InPhase(i, a, "Failed")'
      BY <2>5, <2>6
    <3>2. ASSUME InPhase(i, "BuildImage", "Running")'
          PROVE  st \in {None, Result("SignImage", TRUE)} \/ InPhase(i, "SignImage", "Failed")'
      <4>1. CASE InPhase(i, "BuildImage", "Running")
        BY <2>5, <2>6, <4>1 DEF Actions
      <4>2. CASE ~InPhase(i, "BuildImage", "Running")
        <5>1. jobs[<<i, "BuildImage">>] = None /\ st # Result("BuildImage", TRUE)
          BY <2>6, <3>2, <4>2 DEF Actions
        <5>2. st # Result("BuildImage", FALSE)
          BY <2>5, <5>1 DEF InPhase, Actions
        <5>3. st = Result("SignImage", FALSE) => InPhase(i, "SignImage", "Failed")'
          BY <3>1 DEF Actions
        <5> QED BY <2>4, <5>1, <5>2, <5>3 DEF Actions
      <4> QED BY <4>1, <4>2
    <3>3. ASSUME InPhase(i, "SignImage", "Running")'
          PROVE  st = Result("BuildImage", TRUE) \/ InPhase(i, "BuildImage", "Failed")'
      <4>1. CASE InPhase(i, "SignImage", "Running")
        BY <2>5, <2>6, <4>1 DEF Actions
      <4>2. CASE ~InPhase(i, "SignImage", "Running")
        <5>1. /\ jobs[<<i, "SignImage">>] = None /\ st # Result("SignImage", TRUE)
              /\ mbsc.spec[i] # None /\ mbsc.spec[i].action = "SignImage"
          BY <2>6, <3>3, <4>2 DEF Actions
        <5>2. st # None
          BY <1>2, <2>0, <2>7, <5>1 DEF SignAfterBuild, SignsSeen
        <5>3. st # Result("SignImage", FALSE)
          BY <2>5, <5>1 DEF InPhase, Actions
        <5>4. st = Result("BuildImage", FALSE) => InPhase(i, "BuildImage", "Failed")'
          BY <3>1 DEF Actions
        <5> QED BY <2>4, <5>1, <5>2, <5>3, <5>4 DEF Actions
      <4> QED BY <4>1, <4>2
    <3> QED BY <3>1, <3>2, <3>3 DEF InTurn, st
  <2> QED BY <2>8, <2>9
<1> QED BY <1>7, <1>8, <1>9
-----------------------------------------------------------------------------
(* The Pods                                                                *)

(* No Pod starts again, and one that failed stays.                         *)
LEMMA JobsOrder ==
    ASSUME OrderInv, AsCreated, UNCHANGED <<mic, mbsc, cache>>, JobsMade',
           \A i \in Images, a \in Actions :
              /\ InPhase(i, a, "Running")' => InPhase(i, a, "Running")
              /\ InPhase(i, a, "Failed") => InPhase(i, a, "Failed")'
    PROVE  OrderInv'
<1> SUFFICES /\ SpecSeen' /\ OneMBSC' /\ JobsMade'
             /\ \A i \in Images : Built(i)' => SignAfterBuild(i)' /\ InTurn(i)'
  BY DEF OrderInv
<1>1. /\ SpecSeen /\ OneMBSC
      /\ \A i \in Images : Built(i) => SignAfterBuild(i) /\ InTurn(i)
  BY DEF OrderInv
<1>2. SpecSeen' /\ OneMBSC'
  BY <1>1 DEF SpecSeen, OneMBSC, Asks
<1>3. ASSUME NEW i \in Images, Built(i)' PROVE SignAfterBuild(i)' /\ InTurn(i)'
  <2>1. Built(i)
    BY <1>3 DEF Built, Only
  <2>2. SignAfterBuild(i)'
    BY <1>1, <2>1 DEF SignAfterBuild, SignsSeen, ResultSeen
  <2>3. InTurn(i)'
    BY <1>1, <2>1 DEF InTurn, Actions
  <2> QED BY <2>2, <2>3
<1> QED BY <1>2, <1>3

(* The MBSC controller collects successful Pods only.                      *)
LEMMA GarbageCollectOrder ==
    ASSUME ImageInv, OrderInv, AsCreated, NEW fails \in BOOLEAN, garbageCollect(fails)
    PROVE  OrderInv'
<1>0. UNCHANGED <<mic, mbsc, cache>> /\ JobsMade /\ jobs \in JobMap
  BY DEF garbageCollect, OrderInv, ImageInv, Types
<1>1. ASSUME NEW k \in Images \X Actions
      PROVE  \/ jobs'[k] = jobs[k]
             \/ /\ jobs[k] # None /\ jobs[k].phase = "Succeeded"
                /\ jobs'[k] = [jobs[k] EXCEPT !.deleting = TRUE]
  <2>1. PICK done \in SUBSET (Images \X Actions) :
            jobs' = [n \in Images \X Actions |->
                        LET j == OwnedJob(collecting, n[1], n[2])
                        IN IF n \in done /\ j # None /\ j.phase = "Succeeded" /\ jobs[n] # None
                           THEN [jobs[n] EXCEPT !.deleting = TRUE] ELSE jobs[n]]
    BY DEF garbageCollect
  <2> DEFINE j == OwnedJob(collecting, k[1], k[2])
  <2>2. jobs'[k] = IF k \in done /\ j # None /\ j.phase = "Succeeded" /\ jobs[k] # None
                   THEN [jobs[k] EXCEPT !.deleting = TRUE] ELSE jobs[k]
    BY <2>1
  <2>3. j # None => j = cache.jobs[k]
    BY DEF OwnedJob
  <2>4. j # None /\ j.phase = "Succeeded" /\ jobs[k] # None => jobs[k].phase = "Succeeded"
    BY <1>0, <2>3 DEF JobsMade, JobSeen
  <2> HIDE DEF j
  <2> QED BY <2>2, <2>4
<1>2. ASSUME NEW k \in Images \X Actions
      PROVE  \/ jobs'[k] = jobs[k]
             \/ /\ jobs[k] # None /\ jobs[k].phase = "Succeeded"
                /\ jobs'[k] # None /\ jobs'[k].phase = "Succeeded"
                /\ jobs'[k].uid = jobs[k].uid /\ jobs'[k].hash = jobs[k].hash
  <2>1. CASE jobs[k] # None /\ jobs[k].phase = "Succeeded" /\ jobs'[k] = [jobs[k] EXCEPT !.deleting = TRUE]
    <3>1. jobs[k] \in Job
      BY <1>0, <2>1 DEF JobMap
    <3>2. /\ jobs'[k] \in Job /\ jobs'[k].phase = jobs[k].phase
          /\ jobs'[k].uid = jobs[k].uid /\ jobs'[k].hash = jobs[k].hash
      BY <2>1, <3>1 DEF Job
    <3> QED BY <2>1, <3>2, NoneAssumption
  <2> QED BY <1>1, <2>1
<1>3. JobsMade'
  <2> SUFFICES ASSUME NEW k \in Images \X Actions
               PROVE  JobMade(k, jobs[k])' /\ JobMade(k, cache.jobs[k])' /\ JobSeen(k)'
    BY DEF JobsMade
  <2>0. JobMade(k, jobs[k]) /\ JobMade(k, cache.jobs[k]) /\ JobSeen(k)
    BY <1>0 DEF JobsMade
  <2>1. JobMade(k, cache.jobs[k])'
    BY <1>0, <2>0 DEF JobMade
  <2> QED BY <1>0, <1>2, <2>0, <2>1 DEF JobMade, JobSeen
<1>4. ASSUME NEW i \in Images, NEW a \in Actions
      PROVE  /\ InPhase(i, a, "Running")' => InPhase(i, a, "Running")
             /\ InPhase(i, a, "Failed") => InPhase(i, a, "Failed")'
  BY <1>2, JobKey DEF InPhase
<1> QED BY <1>0, <1>3, <1>4, JobsOrder

(* A change of one Pod.                                                    *)
LEMMA OneJobOrder ==
    ASSUME Types, OrderInv, AsCreated, UNCHANGED <<mic, mbsc, cache>>,
           NEW i \in Images, NEW a \in Actions, NEW j, jobs[<<i, a>>] # None,
           jobs' = [jobs EXCEPT ![<<i, a>>] = j],
           j # None => /\ j.uid = jobs[<<i, a>>].uid /\ j.hash = jobs[<<i, a>>].hash
                       /\ j.deleting => j.phase = "Succeeded"
                       /\ j.phase = "Running" => jobs[<<i, a>>].phase = "Running"
                       /\ cache.jobs[<<i, a>>] # None /\ cache.jobs[<<i, a>>].phase # "Running"
                             => j.phase = cache.jobs[<<i, a>>].phase,
           jobs[<<i, a>>].phase = "Failed" => j # None /\ j.phase = "Failed"
    PROVE  OrderInv'
<1>0. /\ JobsMade /\ <<i, a>> \in Images \X Actions
      /\ JobMade(<<i, a>>, jobs[<<i, a>>]) /\ JobMade(<<i, a>>, cache.jobs[<<i, a>>])
      /\ JobSeen(<<i, a>>)
  BY JobKey DEF OrderInv, JobsMade
<1>1. /\ jobs'[<<i, a>>] = j
      /\ \A k \in Images \X Actions : k # <<i, a>> => jobs'[k] = jobs[k]
  BY <1>0 DEF Types, JobMap
<1>2. JobsMade'
  <2> SUFFICES ASSUME NEW k \in Images \X Actions
               PROVE  JobMade(k, jobs[k])' /\ JobMade(k, cache.jobs[k])' /\ JobSeen(k)'
    BY DEF JobsMade
  <2>0. JobMade(k, jobs[k]) /\ JobMade(k, cache.jobs[k]) /\ JobSeen(k)
    BY <1>0 DEF JobsMade
  <2>1. JobMade(k, cache.jobs[k])'
    BY <2>0 DEF JobMade
  <2>2. CASE k # <<i, a>>
    BY <1>1, <2>0, <2>1, <2>2 DEF JobMade, JobSeen
  <2>3. CASE k = <<i, a>>
    <3>1. jobs'[k] = j
      BY <1>1, <2>3
    <3>2. JobMade(k, jobs[k])'
      BY <2>0, <2>3, <3>1 DEF JobMade
    <3>3. JobSeen(k)'
      BY <2>0, <2>3, <3>1 DEF JobSeen
    <3> QED BY <2>1, <3>2, <3>3
  <2> QED BY <2>2, <2>3
<1>3. ASSUME NEW n \in Images, NEW c \in Actions
      PROVE  /\ InPhase(n, c, "Running")' => InPhase(n, c, "Running")
             /\ InPhase(n, c, "Failed") => InPhase(n, c, "Failed")'
  <2>1. CASE <<n, c>> = <<i, a>>
    BY <1>1, <2>1 DEF InPhase
  <2>2. CASE <<n, c>> # <<i, a>>
    BY <1>1, <2>2, JobKey DEF InPhase
  <2> QED BY <2>1, <2>2
<1> QED BY <1>2, <1>3, JobsOrder

(* Build and sign Pods end, and go when they have succeeded; their MBSC    *)
(* does not.                                                               *)
LEMMA JobStepOrder ==
    ASSUME ImageInv, OrderInv, AsCreated, NEW i \in Images, NEW a \in Actions,
           JobSucceeds(i, a) \/ JobFails(i, a) \/ JobGone(i, a) \/ OwnerGone(i, a)
    PROVE  OrderInv'
<1> DEFINE j == jobs[<<i, a>>]
           c == cache.jobs[<<i, a>>]
<1>0. /\ UNCHANGED <<mic, mbsc, cache>> /\ j # None /\ j \in Job
      /\ j.uid = mbsc.uid /\ mbsc # None /\ (j.deleting => j.phase = "Succeeded")
      /\ c # None /\ c.phase # "Running" => j.phase = c.phase
  <2>1. UNCHANGED <<mic, mbsc, cache>> /\ j # None
    BY DEF JobSucceeds, JobFails, JobGone, OwnerGone, controllers
  <2>2. j \in Job
    BY <2>1, JobKey DEF ImageInv, Types, JobMap
  <2>3. JobMade(<<i, a>>, j) /\ JobSeen(<<i, a>>)
    BY JobKey DEF OrderInv, JobsMade
  <2> QED BY <2>1, <2>2, <2>3 DEF JobMade, JobSeen
<1>1. CASE JobSucceeds(i, a) \/ JobFails(i, a)
  <2>1. PICK ph \in {"Succeeded", "Failed"} :
            jobs' = [jobs EXCEPT ![<<i, a>>] = [j EXCEPT !.phase = ph]]
    BY <1>1 DEF JobSucceeds, JobFails
  <2> DEFINE new == [j EXCEPT !.phase = ph]
  <2>2. j.phase = "Running"
    BY <1>1 DEF JobSucceeds, JobFails
  <2>3. ~j.deleting
    BY <1>0, <2>2
  <2>4. new.uid = j.uid /\ new.hash = j.hash /\ new.deleting = j.deleting /\ new.phase = ph
    BY <1>0 DEF Job
  <2>5. jobs' = [jobs EXCEPT ![<<i, a>>] = new]
    BY <2>1
  <2> HIDE DEF new
  <2> QED BY <1>0, <2>2, <2>3, <2>4, <2>5, OneJobOrder DEF ImageInv
<1>2. CASE JobGone(i, a)
  <2>1. jobs' = [jobs EXCEPT ![<<i, a>>] = None] /\ j.deleting
    BY <1>2 DEF JobGone
  <2> QED BY <1>0, <2>1, OneJobOrder DEF ImageInv
<1>3. CASE OwnerGone(i, a)
  BY <1>0, <1>3 DEF OwnerGone
<1> QED BY <1>1, <1>2, <1>3

-----------------------------------------------------------------------------
(* The informers                                                           *)

LEMMA DeliverMICOrder ==
    ASSUME ImageInv, OrderInv, AsCreated, DeliverMIC
    PROVE  OrderInv'
<1> SUFFICES /\ SpecSeen' /\ OneMBSC' /\ JobsMade'
             /\ \A i \in Images : Built(i)' => SignAfterBuild(i)' /\ InTurn(i)'
  BY DEF OrderInv
<1>1. /\ SpecSeen /\ OneMBSC /\ JobsMade
      /\ \A i \in Images : Built(i) => SignAfterBuild(i) /\ InTurn(i)
  BY DEF OrderInv
<1>2. /\ UNCHANGED <<mic, mbsc, jobs>>
      /\ cache'.mic = mic /\ cache'.mbsc = cache.mbsc /\ cache'.jobs = cache.jobs
  BY DEF DeliverMIC, objects, ImageInv, Types, Cache
<1>3. SpecSeen' /\ OneMBSC'
  BY <1>1, <1>2 DEF SpecSeen, OneMBSC, Asks, AsCreated
<1>4. JobsMade'
  BY <1>1, <1>2 DEF JobsMade, JobMade, JobSeen
<1>5. ASSUME NEW i \in Images, Built(i)' PROVE SignAfterBuild(i)' /\ InTurn(i)'
  <2>1. Built(i)
    BY <1>2, <1>5 DEF Built, Only
  <2>2. SignAfterBuild(i)'
    BY <1>1, <1>2, <2>1 DEF SignAfterBuild, SignsSeen, ResultSeen
  <2>3. InTurn(i)'
    BY <1>1, <1>2, <2>1 DEF InTurn, InPhase
  <2> QED BY <2>2, <2>3
<1> QED BY <1>3, <1>4, <1>5

(* A result that was seen is seen again.                                   *)
LEMMA DeliverMBSCOrder ==
    ASSUME ImageInv, OrderInv, AsCreated, DeliverMBSC
    PROVE  OrderInv'
<1> SUFFICES /\ SpecSeen' /\ OneMBSC' /\ JobsMade'
             /\ \A i \in Images : Built(i)' => SignAfterBuild(i)' /\ InTurn(i)'
  BY DEF OrderInv
<1>1. /\ SpecSeen /\ OneMBSC /\ JobsMade
      /\ \A i \in Images : Built(i) => SignAfterBuild(i) /\ InTurn(i)
  BY DEF OrderInv
<1>2. /\ UNCHANGED <<mic, mbsc, jobs>>
      /\ cache'.mic = cache.mic /\ cache'.mbsc = mbsc /\ cache'.jobs = cache.jobs
  BY DEF DeliverMBSC, objects, ImageInv, Types, Cache
<1>3. SpecSeen' /\ OneMBSC'
  BY <1>1, <1>2 DEF SpecSeen, OneMBSC, Asks
<1>4. JobsMade'
  BY <1>1, <1>2 DEF JobsMade, JobMade, JobSeen
<1>5. ASSUME NEW i \in Images, Built(i)' PROVE SignAfterBuild(i)' /\ InTurn(i)'
  <2>1. Built(i)
    BY <1>2, <1>5 DEF Built, Only
  <2>2. ResultSeen(i) => ResultSeen(i)'
    BY <1>1, <1>2, <2>1 DEF SignAfterBuild, ResultSeen, OneMBSC
  <2>3. SignAfterBuild(i)'
    <3>1. SignsSeen(mbsc, i)' /\ SignsSeen(cache.mbsc, i)'
      BY <1>1, <1>2, <2>1, <2>2 DEF SignAfterBuild, SignsSeen
    <3>2. ResultSeen(i)' => mbsc'.status[i] # None
      BY <1>2 DEF ResultSeen
    <3> QED BY <1>1, <1>2, <2>1, <2>2, <3>1, <3>2 DEF SignAfterBuild
  <2>4. InTurn(i)'
    BY <1>1, <1>2, <2>1 DEF InTurn, InPhase
  <2> QED BY <2>3, <2>4
<1> QED BY <1>3, <1>4, <1>5

LEMMA DeliverPodsOrder ==
    ASSUME ImageInv, OrderInv, AsCreated, DeliverPods
    PROVE  OrderInv'
<1> SUFFICES /\ SpecSeen' /\ OneMBSC' /\ JobsMade'
             /\ \A i \in Images : Built(i)' => SignAfterBuild(i)' /\ InTurn(i)'
  BY DEF OrderInv
<1>1. /\ SpecSeen /\ OneMBSC /\ JobsMade
      /\ \A i \in Images : Built(i) => SignAfterBuild(i) /\ InTurn(i)
  BY DEF OrderInv
<1>2. /\ UNCHANGED <<mic, mbsc, jobs>>
      /\ cache'.mic = cache.mic /\ cache'.mbsc = cache.mbsc /\ cache'.jobs = jobs
  BY DEF DeliverPods, objects, ImageInv, Types, Cache
<1>3. SpecSeen' /\ OneMBSC'
  BY <1>1, <1>2 DEF SpecSeen, OneMBSC, Asks
<1>4. JobsMade'
  BY <1>1, <1>2 DEF JobsMade, JobMade, JobSeen
<1>5. ASSUME NEW i \in Images, Built(i)' PROVE SignAfterBuild(i)' /\ InTurn(i)'
  <2>1. Built(i)
    BY <1>2, <1>5 DEF Built, Only
  <2>2. SignAfterBuild(i)'
    BY <1>1, <1>2, <2>1 DEF SignAfterBuild, SignsSeen, ResultSeen
  <2>3. InTurn(i)'
    BY <1>1, <1>2, <2>1 DEF InTurn, InPhase
  <2> QED BY <2>2, <2>3
<1> QED BY <1>3, <1>4, <1>5

-----------------------------------------------------------------------------
(* All steps                                                               *)

(* A MIC that was edited or triggered stays so.                            *)
LEMMA CreatedBefore ==
    ASSUME ImageInv, [Next]_vars, AsCreated'
    PROVE  AsCreated
<1> USE DEF ImageInv
<1>0. mic \in MIC /\ mic.gen \in Nat /\ mic.edits \in Nat
  BY DEF Types, MIC
<1>1. CASE UNCHANGED mic
  BY <1>1 DEF AsCreated
<1>2. CASE \E fails \in BOOLEAN : handleTrigger(fails)
  <2>1. CASE mic' = [Patch(mic, cache.mic, NoStates) EXCEPT !.statusGen = cache.mic.gen]
    <3>1. /\ Patch(mic, cache.mic, NoStates) \in MIC
          /\ Patch(mic, cache.mic, NoStates).gen = mic.gen
          /\ Patch(mic, cache.mic, NoStates).edits = mic.edits
      BY NoStatesType, PatchSound DEF Types, Sound
    <3>2. mic'.gen = mic.gen /\ mic'.edits = mic.edits
      BY <2>1, <3>1 DEF MIC
    <3> QED BY <3>2 DEF AsCreated
  <2> QED BY <1>1, <1>2, <2>1 DEF handleTrigger
<1>3. CASE MICReconcile
  <2>1. PICK states \in StatesByPull(cache.mic) :
            mic' = updateStatusByMBSC(updateStatusByPullPods(states)).live
    BY <1>3 DEF MICReconcile
  <2>2. MICUpdate(updateStatusByMBSC(updateStatusByPullPods(states)))
    BY ByPullSound, ByMBSCSound
  <2> QED BY <2>1, <2>2 DEF MICUpdate, AsCreated
<1>4. CASE MICStops
  <2>1. PICK states \in StatesByPull(cache.mic) :
            mic' \in {updateStatusByPullPods(states).live,
                      updateStatusByMBSC(updateStatusByPullPods(states)).live}
    BY <1>4 DEF MICStops
  <2>2. /\ MICUpdate(updateStatusByPullPods(states))
        /\ MICUpdate(updateStatusByMBSC(updateStatusByPullPods(states)))
    BY ByPullSound, ByMBSCSound
  <2> QED BY <2>1, <2>2 DEF MICUpdate, AsCreated
<1>5. CASE ChangeTrigger
  <2>1. mic'.gen = mic.gen + 1
    BY <1>0, <1>5 DEF ChangeTrigger, MIC
  <2> QED BY <1>0, <2>1 DEF AsCreated
<1>6. CASE \E i \in Images, s \in Specs \cup {None} : handleMIC(i, s)
  <2>1. mic'.edits = mic.edits + 1
    BY <1>0, <1>6 DEF handleMIC, MIC
  <2> QED BY <1>0, <2>1 DEF AsCreated
<1>7. \/ UNCHANGED mic
      \/ \E fails \in BOOLEAN : handleTrigger(fails)
      \/ MICReconcile \/ MICStops \/ ChangeTrigger
      \/ \E i \in Images, s \in Specs \cup {None} : handleMIC(i, s)
  BY DEF Next, vars, objects, controllers, garbageCollect, MBSCReconcile, MBSCMissing, DeliverMIC,
         DeliverMBSC, DeliverPods, PullEnds, PullBreaks, LoseImage, JobSucceeds, JobFails,
         JobGone, OwnerGone
<1> QED BY <1>1, <1>2, <1>3, <1>4, <1>5, <1>6, <1>7

LEMMA OrderStep == ImageInv /\ OrderInv /\ [Next]_vars => OrderInv'
<1> SUFFICES ASSUME ImageInv, OrderInv, [Next]_vars, AsCreated'
             PROVE  OrderInv'
  BY DEF OrderInv
<1>0. AsCreated
  BY CreatedBefore
<1>1. CASE \E fails \in BOOLEAN : handleTrigger(fails)
  BY <1>0, <1>1 DEF handleTrigger, OrderInv, SpecSeen
<1>2. CASE \E fails \in BOOLEAN : garbageCollect(fails)
  BY <1>0, <1>2, GarbageCollectOrder
<1>3. CASE MICReconcile
  BY <1>0, <1>3, MICReconcileOrder
<1>4. CASE MICStops
  BY <1>0, <1>4, MICStopsOrder
<1>5. CASE MBSCReconcile
  BY <1>0, <1>5, MBSCReconcileOrder
<1>6. CASE DeliverMIC
  BY <1>0, <1>6, DeliverMICOrder
<1>7. CASE DeliverMBSC
  BY <1>0, <1>7, DeliverMBSCOrder
<1>8. CASE DeliverPods
  BY <1>0, <1>8, DeliverPodsOrder
<1>9. CASE ChangeTrigger \/ \E i \in Images, s \in Specs \cup {None} : handleMIC(i, s)
  <2>1. mic \in MIC /\ mic.gen \in Nat /\ mic.edits \in Nat
    BY DEF ImageInv, Types, MIC
  <2>2. mic'.gen = mic.gen + 1 \/ mic'.edits = mic.edits + 1
    BY <1>9, <2>1 DEF ChangeTrigger, handleMIC, MIC
  <2> QED BY <1>0, <2>1, <2>2 DEF AsCreated
<1>10. CASE \E i \in Images, a \in Actions :
               JobSucceeds(i, a) \/ JobFails(i, a) \/ JobGone(i, a) \/ OwnerGone(i, a)
  BY <1>0, <1>10, JobStepOrder
<1>11. CASE \/ UNCHANGED vars \/ MBSCMissing
            \/ \E p \in pull : PullEnds(p) \/ PullBreaks(p)
            \/ \E i \in Images : LoseImage(i)
  <2>1. UNCHANGED <<mic, mbsc, jobs, cache>>
    BY <1>11 DEF vars, objects, controllers, MBSCMissing, PullEnds, PullBreaks, LoseImage
  <2> QED BY <2>1, OrderKept
<1> QED BY <1>1, <1>2, <1>3, <1>4, <1>5, <1>6, <1>7, <1>8, <1>9, <1>10, <1>11 DEF Next

LEMMA OrderInit == Init => OrderInv
<1> SUFFICES ASSUME Init
             PROVE  /\ SpecSeen /\ OneMBSC /\ JobsMade
                    /\ \A i \in Images : Built(i) => SignAfterBuild(i) /\ InTurn(i)
  BY DEF OrderInv
<1>1. /\ mic.states = NoStates /\ mic.statusGen = 0 /\ mic.gen = 0
      /\ mbsc = None /\ cache.mic = mic /\ cache.mbsc = None /\ cache.jobs = jobs
      /\ \A k \in Images \X Actions : jobs[k] = None
  BY DEF Init
<1>2. SpecSeen /\ OneMBSC /\ JobsMade
  BY <1>1 DEF SpecSeen, OneMBSC, Asks, JobsMade, JobMade, JobSeen
<1>3. ASSUME NEW i \in Images PROVE SignAfterBuild(i) /\ InTurn(i)
  <2>1. mic.states[i] # "NeedsSigning"
    BY <1>1, Constants DEF NoStates, States
  <2> QED BY <1>1, <2>1 DEF SignAfterBuild, SignsSeen, ResultSeen, InTurn
<1> QED BY <1>2, <1>3

(* The build and the sign of a Module's only image, which push to the same *)
(* name, never run at the same time for one MBSC (BuildThenSign), however  *)
(* old the copies are from which the two controllers work.                 *)
THEOREM SignFollowsBuild == Spec => []BuildThenSign
<1>1. Init => ImageInv /\ OrderInv
  BY InitInv, OrderInit
<1>2. ImageInv /\ OrderInv /\ [Next]_vars => (ImageInv /\ OrderInv)'
  BY InvStep, OrderStep
<1>3. ImageInv /\ OrderInv => BuildThenSign
  <2> SUFFICES ASSUME ImageInv, OrderInv, AsCreated, NEW i \in Images, Only(i),
                      InPhase(i, "BuildImage", "Running"), InPhase(i, "SignImage", "Running")
               PROVE  FALSE
    BY DEF BuildThenSign, AsCreated, InPhase
  <2>1. <<i, "BuildImage">> \in Images \X Actions
    BY DEF Actions
  <2>2. mbsc # None /\ Section("BuildImage", mic.spec[i]) # 0
    BY <2>1 DEF OrderInv, JobsMade, JobMade, InPhase
  <2>3. Built(i)
    BY <2>2 DEF Section, Built
  <2>4. InTurn(i)
    BY <2>3 DEF OrderInv
  <2>5. Result("BuildImage", TRUE) \notin {None, Result("SignImage", TRUE)}
    BY Results DEF Actions
  <2> QED BY <2>2, <2>4, <2>5 DEF InTurn, InPhase
<1> QED BY <1>1, <1>2, <1>3, PTL DEF Spec

=============================================================================
