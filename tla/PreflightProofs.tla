--------------------------- MODULE PreflightProofs ---------------------------
(***************************************************************************)
(* Proofs about Preflight for any Modules, PreflightValidations, kernels   *)
(* and candidates: the types, that verdicts rest right, and that a Module  *)
(* the webhook lets in is one the operator can work with.                  *)
(***************************************************************************)
EXTENDS Preflight, WellFoundedInduction, TLAPS

-----------------------------------------------------------------------------
(* Types                                                                   *)

(* What the types leave open: which objects are complete, and that a task  *)
(* has one answer of the mapper per Module.                                *)
Bound ==
    /\ \A m \in Modules : Live(m) => module[m].spec \in Candidates
    /\ \A p \in Existing : preflight[p].kernelVersion \in Kernels
    /\ \A m \in Modules : IF mic[m].exists
                          THEN mic[m].owner \in Preflights /\ mic[m].spec \in ImageSpecs
                          ELSE mic[m] = NoMIC
    /\ \A m \in Modules : \A s \in mic[m].states : s.asked.image = s.image
    /\ IF task.step = "idle" THEN task = Idle ELSE task.pv \in Preflights
    /\ \A x, y \in task.mlds : x.name = y.name => x = y

TypeInv == TypeOK /\ Bound

-----------------------------------------------------------------------------

(* What the mapper yields is one of Results.                               *)
LEMMA MappedIsResult ==
    ASSUME NEW s \in Candidates, NEW k \in Kernels,
           MLDOf(s, k) # NoMatch, MLDOf(s, k) # Failed
    PROVE  MLDOf(s, k) \in Results
BY DEF Results

(* What the pipeline is asked for is one of the images.                    *)
LEMMA SpecImage ==
    ASSUME NEW spec \in ImageSpecs
    PROVE  spec.image \in Images
<1>1. PICK r \in Results : spec = ModuleImageSpec(r)
  BY DEF ImageSpecs
<1>2. spec.image = r.containerImage
  BY <1>1 DEF ModuleImageSpec
<1> QED BY <1>2 DEF Images

(* The initial state has the types.                                        *)
LEMMA TypeInit == Init => TypeInv
<1> SUFFICES ASSUME Init PROVE TypeInv
  OBVIOUS
<1>1. NoModule \in ModuleObject /\ NoModule.phase = "none"
  BY DEF NoModule, ModuleObject
<1>2. NoPreflight \in PreflightObject /\ ~NoPreflight.exists
  BY DEF NoPreflight, PreflightObject, Verdicts
<1>3. NoMIC \in MICObject /\ NoMIC.states = {} /\ ~NoMIC.exists
  BY DEF NoMIC, MICObject
<1>4. Idle \in TaskObject /\ Idle.step = "idle" /\ Idle.mlds = {}
  BY DEF Idle, TaskObject
<1>5. TypeOK
  BY <1>1, <1>2, <1>3, <1>4, PreflightAssumption DEF Init, TypeOK
<1>6. Bound
  BY <1>1, <1>2, <1>3, <1>4 DEF Init, Bound, Live, Existing
<1> QED BY <1>5, <1>6 DEF TypeInv

(* The end of a Reconcile keeps the types of queue and task.               *)
LEMMA EndTypes ==
    ASSUME TypeInv, NEW failed \in BOOLEAN, NEW changed \in SUBSET Preflights,
           task.step # "idle", End(failed, changed)
    PROVE  queue' \subseteq Preflights /\ task' = Idle
BY DEF End, TypeInv, TypeOK, Bound

(* Idle has the type of a task.                                            *)
LEMMA IdleTyped ==
    /\ Idle \in TaskObject
    /\ Idle.step = "idle" /\ Idle.mlds = {} /\ Idle.pv = None
BY DEF Idle, TaskObject

(* getModulesData starts a task with one answer per live Module.           *)
LEMMA TypeGetModulesData ==
    ASSUME TypeInv, NEW p \in Preflights, getModulesData(p)
    PROVE  TypeInv'
<1> DEFINE k == preflight[p].kernelVersion
           data == ModulesData(k)
<1>1. CASE UNCHANGED task
  BY <1>1 DEF getModulesData, TypeInv, TypeOK, Bound, Live, Existing
<1>2. CASE /\ p \in Existing
           /\ \A d \in data : d.mld # Failed
           /\ task' = [step |-> "updateStatus", pv |-> p, kernelVersion |-> k,
                       mlds |-> {d \in data : d.mld # NoMatch},
                       without |-> {d.name : d \in {e \in data : e.mld = NoMatch}}]
  <2>1. k \in Kernels
    BY <1>2 DEF TypeInv, Bound
  <2>2. ASSUME NEW d \in data
        PROVE  /\ d.name \in Modules
               /\ d.mld # NoMatch => d \in [name: Modules, mld: Results]
    <3>1. PICK m \in Modules : Live(m) /\ d = [name |-> m, mld |-> MLDOf(module[m].spec, k)]
      BY DEF ModulesData
    <3>2. module[m].spec \in Candidates
      BY <3>1 DEF TypeInv, Bound
    <3>3. d.name = m /\ d.mld = MLDOf(module[m].spec, k) /\ d = [name |-> m, mld |-> d.mld]
      BY <3>1
    <3> HIDE DEF k
    <3>4. d.mld # NoMatch => d.mld \in Results
      BY <1>2, <2>1, <2>2, <3>2, <3>3, MappedIsResult
    <3> QED BY <3>3, <3>4
  <2>3. \A x, y \in data : x.name = y.name => x = y
    <3> HIDE DEF k
    <3> QED BY DEF ModulesData
  <2> HIDE DEF k, data
  <2>4. /\ {d \in data : d.mld # NoMatch} \subseteq [name: Modules, mld: Results]
        /\ {d.name : d \in {e \in data : e.mld = NoMatch}} \subseteq Modules
    BY <2>2
  <2>6. task' \in TaskObject
    BY <1>2, <2>1, <2>4 DEF TaskObject
  <2>7. TypeOK'
    BY <2>6 DEF getModulesData, TypeInv, TypeOK
  <2>8. Bound'
    BY <1>2, <2>3 DEF getModulesData, TypeInv, Bound, Live, Existing
  <2> QED BY <2>7, <2>8 DEF TypeInv
<1> QED
  BY <1>1, <1>2 DEF getModulesData, Existing

(* A verdict is one of four.                                               *)
LEMMA VerdictRange ==
    ASSUME NEW m, NEW mld
    PROVE  Verdict(m, mld) \in {"Success", "Failure", "InProgress"}
BY DEF Verdict

(* updateStatus writes verdicts.                                           *)
LEMMA TypeUpdateStatus ==
    ASSUME TypeInv, updateStatus
    PROVE  TypeInv'
<1>p. task.pv \in Preflights
  BY DEF updateStatus, TypeInv, Bound
<1>1. CASE preflight[task.pv].exists
  <2> DEFINE S == SetModuleStatuses(preflight[task.pv].status)
  <2>1. S \in [Modules -> Verdicts]
    <3> DEFINE value(m) == IF m \in task.without THEN "Failure"
                           ELSE IF \E p \in task.mlds : p.name = m
                                THEN Verdict(m, (CHOOSE p \in task.mlds : p.name = m).mld)
                                ELSE preflight[task.pv].status[m]
    <3>1. ASSUME NEW m \in Modules PROVE value(m) \in Verdicts
      <4>1. preflight[task.pv].status[m] \in Verdicts
        BY <1>p DEF TypeInv, TypeOK, PreflightObject
      <4>2. Verdict(m, (CHOOSE p \in task.mlds : p.name = m).mld) \in Verdicts
        BY VerdictRange DEF Verdicts
      <4> QED BY <4>1, <4>2 DEF Verdicts
    <3>2. S = [m \in Modules |-> value(m)]
      BY DEF SetModuleStatuses
    <3> HIDE DEF value
    <3> QED BY <3>1, <3>2
  <2>2. preflight' = [preflight EXCEPT ![task.pv].status = S]
    BY <1>1 DEF updateStatus
  <2> HIDE DEF S
  <2>3. /\ preflight' \in [Preflights -> PreflightObject]
        /\ \A p \in Preflights : /\ preflight'[p].exists = preflight[p].exists
                                 /\ preflight'[p].kernelVersion = preflight[p].kernelVersion
    BY <2>1, <2>2, <1>p DEF TypeInv, TypeOK, PreflightObject
  <2>4. task' = [task EXCEPT !.step = "process"] /\ UNCHANGED queue
    BY <1>1 DEF updateStatus
  <2>5. TypeOK'
    BY <2>3, <2>4 DEF updateStatus, TypeInv, TypeOK, TaskObject
  <2>6. Bound'
    BY <2>3, <2>4, <1>p DEF updateStatus, TypeInv, TypeOK, TaskObject, Bound, Live, Existing
  <2> QED BY <2>5, <2>6 DEF TypeInv
<1>2. CASE ~preflight[task.pv].exists
  BY <1>2, EndTypes, IdleTyped DEF updateStatus, TypeInv, TypeOK, Bound, Live, Existing
<1> QED BY <1>1, <1>2

(* processPreflightValidation writes complete ModuleImagesConfigs.         *)
LEMMA TypeProcess ==
    ASSUME TypeInv, processPreflightValidation
    PROVE  TypeInv'
<1> DEFINE pending == {p \in task.mlds : preflight[task.pv].status[p.name] \notin {"Success", "Failure"}}
<1>p. task.pv \in Preflights /\ task.step = "process"
  BY DEF processPreflightValidation, TypeInv, Bound
<1>1. PICK done \in SUBSET {p \in pending : Owned(p.name)} :
          /\ \/ failures' = failures
             \/ failures < MaxFailures /\ failures' = failures + 1
          /\ mic' = [m \in Modules |-> IF \E p \in done : p.name = m
                                       THEN CreateOrPatch(m, (CHOOSE p \in done : p.name = m).mld)
                                       ELSE mic[m]]
          /\ End(done # pending, IF mic' = mic THEN {} ELSE {task.pv})
  BY DEF processPreflightValidation
<1>2. queue' \subseteq Preflights /\ task' = Idle
  BY <1>1, <1>p, EndTypes
<1>3. failures' \in 0..MaxFailures
  BY <1>1, PreflightAssumption DEF TypeInv, TypeOK
<1>4. done \subseteq [name: Modules, mld: Results]
  BY DEF TypeInv, TypeOK, TaskObject
<1>5. \A m \in Modules :
          \/ mic'[m] = mic[m]
          \/ /\ mic'[m] \in MICObject
             /\ mic'[m].exists /\ mic'[m].owner = task.pv /\ mic'[m].spec \in ImageSpecs
             /\ mic'[m].states = mic[m].states
  <2> TAKE m \in Modules
  <2>1. CASE \E p \in done : p.name = m
    <3> DEFINE mld == (CHOOSE p \in done : p.name = m).mld
    <3>0. mld \in Results
      BY <2>1, <1>4
    <3>1. ModuleImageSpec(mld) \in ImageSpecs
      BY <3>0 DEF ImageSpecs
    <3>2. mic'[m] = [exists |-> TRUE, owner |-> task.pv, spec |-> ModuleImageSpec(mld),
                     states |-> mic[m].states]
      BY <2>1, <1>1 DEF CreateOrPatch
    <3>3. mic[m].states \subseteq ImageState
      BY DEF TypeInv, TypeOK, MICObject
    <3> HIDE DEF mld
    <3> QED BY <3>1, <3>2, <3>3, <1>p DEF MICObject
  <2> QED BY <2>1, <1>1
<1>6. mic' = [m \in Modules |-> mic'[m]]
  BY <1>1
<1>7. mic' \in [Modules -> MICObject] /\ \A m \in Modules : mic'[m].states = mic[m].states
  BY <1>5, <1>6 DEF TypeInv, TypeOK
<1>9. TypeOK'
  BY <1>2, <1>3, <1>7, IdleTyped DEF processPreflightValidation, TypeInv, TypeOK
<1>10. \A m \in Modules : IF mic'[m].exists
                          THEN mic'[m].owner \in Preflights /\ mic'[m].spec \in ImageSpecs
                          ELSE mic'[m] = NoMIC
  <2> SUFFICES ASSUME NEW m \in Modules
               PROVE  IF mic'[m].exists
                      THEN mic'[m].owner \in Preflights /\ mic'[m].spec \in ImageSpecs
                      ELSE mic'[m] = NoMIC
    OBVIOUS
  <2> QED BY <1>5, <1>p DEF TypeInv, Bound
<1>11. Bound'
  BY <1>2, <1>7, <1>10, IdleTyped DEF processPreflightValidation, TypeInv, Bound, Live, Existing
<1> QED BY <1>9, <1>11 DEF TypeInv

(* The pipeline answers once for an image.                                 *)
LEMMA TypeMICAnswers ==
    ASSUME TypeInv, NEW m \in Modules, MICAnswers(m)
    PROVE  TypeInv'
<1> DEFINE image == mic[m].spec.image
<1>1. mic[m].owner \in Preflights /\ mic[m].spec \in ImageSpecs
  BY DEF MICAnswers, TypeInv, Bound
<1>2. image \in Images
  BY <1>1, SpecImage
<1>3. PICK state \in {"ImageExists", "ImageDoesNotExist"} :
          mic' = [mic EXCEPT ![m].states =
                     @ \cup {[image |-> image, state |-> state, asked |-> mic[m].spec]}]
  BY DEF MICAnswers
<1>4. \A s \in mic[m].states : s.image # image
  <2> SUFFICES ASSUME NEW s \in mic[m].states, s.image = image PROVE FALSE
    OBVIOUS
  <2>1. GetImageState(m, image) = ""
    BY DEF MICAnswers
  <2>2. (CHOOSE t \in mic[m].states : t.image = image) \in mic[m].states
    OBVIOUS
  <2>3. GetImageState(m, image) \in {"ImageExists", "ImageDoesNotExist"}
    <3>1. mic[m].states \subseteq ImageState
      BY DEF TypeInv, TypeOK, MICObject
    <3> QED BY <2>2, <3>1 DEF GetImageState, ImageState
  <2> QED BY <2>1, <2>3
<1> DEFINE answer == [image |-> image, state |-> state, asked |-> mic[m].spec]
<1>a. answer.image = image /\ answer.asked.image = image /\ answer \in ImageState
  BY <1>1, <1>2 DEF ImageState
<1>b. mic' = [mic EXCEPT ![m].states = @ \cup {answer}]
  BY <1>3
<1> HIDE DEF image, answer
<1>5. /\ mic' \in [Modules -> MICObject]
      /\ \A x \in Modules : x # m => mic'[x] = mic[x]
      /\ mic'[m].states = mic[m].states \cup {answer}
      /\ mic'[m].exists = mic[m].exists /\ mic'[m].owner = mic[m].owner /\ mic'[m].spec = mic[m].spec
  <2>2. mic[m] \in MICObject /\ mic \in [Modules -> MICObject]
    BY DEF TypeInv, TypeOK
  <2>3. [mic[m] EXCEPT !.states = @ \cup {answer}] \in MICObject
    BY <1>a, <2>2 DEF MICObject
  <2> QED BY <1>b, <2>2, <2>3 DEF MICObject
<1>6. ASSUME NEW x \in Modules PROVE \A s, t \in mic'[x].states : s.image = t.image => s = t
  <2>1. CASE x = m
    BY <2>1, <1>4, <1>5, <1>a DEF TypeInv, TypeOK
  <2>2. CASE x # m
    BY <2>2, <1>5 DEF TypeInv, TypeOK
  <2> QED BY <2>1, <2>2
<1>7. queue' \subseteq Preflights
  BY <1>1 DEF MICAnswers, TypeInv, TypeOK
<1>8. TypeOK'
  BY <1>5, <1>6, <1>7 DEF MICAnswers, TypeInv, TypeOK
<1>9. Bound'
  <2>1. \A x \in Modules : \A s \in mic'[x].states : s.asked.image = s.image
    BY <1>5, <1>a DEF TypeInv, Bound
  <2> QED BY <1>1, <1>5, <2>1 DEF MICAnswers, TypeInv, Bound, Live, Existing
<1> QED BY <1>8, <1>9 DEF TypeInv

(* The garbage collector removes a ModuleImagesConfig.                     *)
LEMMA TypeCollectMIC ==
    ASSUME TypeInv, NEW m \in Modules, CollectMIC(m)
    PROVE  TypeInv'
<1>1. mic[m].owner \in Preflights
  BY DEF CollectMIC, TypeInv, Bound
<1>2. NoMIC \in MICObject
      /\ NoMIC.states = {} /\ ~NoMIC.exists
  BY DEF NoMIC, MICObject
<1>3. TypeOK'
  BY <1>1, <1>2 DEF CollectMIC, TypeInv, TypeOK
<1>4. Bound'
  BY <1>1, <1>2 DEF CollectMIC, TypeInv, TypeOK, Bound, Live, Existing
<1> QED BY <1>3, <1>4 DEF TypeInv

(* Users write Modules with one of the candidates.                         *)
LEMMA TypeWriteModule ==
    ASSUME TypeInv, NEW m \in Modules,
           NEW new \in ModuleObject,
           new.phase = "live" => new.spec \in Candidates,
           module' = [module EXCEPT ![m] = new],
           queue' = queue \cup Existing,
           changes' = changes \/ Change,
           UNCHANGED <<preflight, mic, registry, task, failures>>
    PROVE  TypeInv'
<1>1. changes' \in 0..MaxChanges
  BY PreflightAssumption DEF Change, TypeInv, TypeOK
<1>2. TypeOK'
  BY <1>1 DEF TypeInv, TypeOK, Existing
<1>3. Bound'
  BY DEF TypeInv, TypeOK, Bound, Live, Existing
<1> QED BY <1>2, <1>3 DEF TypeInv

(* PreflightValidations are written with a kernel.                         *)
LEMMA TypeWritePreflight ==
    ASSUME TypeInv, NEW p \in Preflights,
           DeletePreflight(p) \/ \E k \in Kernels : WritePreflight(p, k)
    PROVE  TypeInv'
<1>1. changes' \in 0..MaxChanges
  BY PreflightAssumption DEF DeletePreflight, WritePreflight, Change, TypeInv, TypeOK
<1>2. NoPreflight \in PreflightObject /\ ~NoPreflight.exists
  BY DEF NoPreflight, PreflightObject, Verdicts
<1>5. \/ preflight' = [preflight EXCEPT ![p] = NoPreflight]
      \/ \E k \in Kernels : preflight' = [preflight EXCEPT ![p].exists = TRUE, ![p].kernelVersion = k]
  BY DEF DeletePreflight, WritePreflight
<1>6. preflight \in [Preflights -> PreflightObject] /\ preflight' \in [Preflights -> PreflightObject]
  <2>1. preflight \in [Preflights -> PreflightObject]
    BY DEF TypeInv, TypeOK
  <2>2. ASSUME NEW k \in Kernels
        PROVE  [preflight EXCEPT ![p].exists = TRUE, ![p].kernelVersion = k] \in [Preflights -> PreflightObject]
    BY <2>1 DEF PreflightObject
  <2> QED BY <2>1, <2>2, <1>2, <1>5
<1>3. TypeOK'
  BY <1>1, <1>6 DEF DeletePreflight, WritePreflight, TypeInv, TypeOK
<1>4. Bound'
  <2>1. \A q \in Existing' : preflight'[q].kernelVersion \in Kernels
    <3> SUFFICES ASSUME NEW q \in Preflights, preflight'[q].exists
                 PROVE  preflight'[q].kernelVersion \in Kernels
      BY DEF Existing
    <3>1. preflight[q] \in PreflightObject /\ (preflight[q].exists => preflight[q].kernelVersion \in Kernels)
      BY <1>6 DEF TypeInv, Bound, Existing
    <3> QED BY <3>1, <1>2, <1>5, <1>6 DEF PreflightObject
  <2> QED BY <2>1 DEF DeletePreflight, WritePreflight, TypeInv, Bound, Live
<1> QED BY <1>3, <1>4 DEF TypeInv

(* Every step of the controller, the pipeline and the users keeps the      *)
(* types.                                                                  *)
LEMMA TypeStep == TypeInv /\ [Next]_vars => TypeInv'
<1> SUFFICES ASSUME TypeInv, [Next]_vars PROVE TypeInv'
  OBVIOUS
<1>1. CASE UNCHANGED vars
  BY <1>1 DEF vars, TypeInv, TypeOK, Bound, Live, Existing
<1>2. CASE CallFails
  <2>1. failures' \in 0..MaxFailures /\ queue' \subseteq Preflights /\ task' = Idle
    <3>1. End(TRUE, {}) /\ task.step # "idle"
      BY <1>2 DEF CallFails
    <3>2. queue' \subseteq Preflights /\ task' = Idle
      BY <3>1, EndTypes
    <3> QED BY <1>2, <3>2, PreflightAssumption DEF CallFails, TypeInv, TypeOK
  <2> QED BY <2>1, <1>2, IdleTyped DEF CallFails, TypeInv, TypeOK, Bound, Live, Existing
<1>3. ASSUME NEW m \in Modules, CreateModule(m) \/ EditModule(m) \/ DeleteModule(m) \/ ModuleGone(m)
      PROVE  TypeInv'
  <2>1. module[m] \in ModuleObject
    BY DEF TypeInv, TypeOK
  <2>2. PICK new \in ModuleObject :
            /\ new.phase = "live" => new.spec \in Candidates
            /\ module' = [module EXCEPT ![m] = new]
    BY <1>3, <2>1 DEF ModuleObject, Live, CreateModule, EditModule, DeleteModule, ModuleGone, WriteModule, Admissible, NoModule
  <2>3. /\ queue' = queue \cup Existing
        /\ changes' = changes \/ Change
        /\ UNCHANGED <<preflight, mic, registry, task, failures>>
    BY <1>3 DEF CreateModule, EditModule, DeleteModule, ModuleGone, WriteModule
  <2> QED BY <2>2, <2>3, TypeWriteModule
<1>4. ASSUME NEW i \in Images, UploadImage(i) PROVE TypeInv'
  <2>1. changes' \in 0..MaxChanges
    BY <1>4, PreflightAssumption DEF UploadImage, Change, TypeInv, TypeOK
  <2> QED BY <1>4, <2>1 DEF UploadImage, TypeInv, TypeOK, Bound, Live, Existing
<1> QED
  BY <1>1, <1>2, <1>3, <1>4, TypeGetModulesData, TypeUpdateStatus, TypeProcess, TypeMICAnswers,
     TypeCollectMIC, TypeWritePreflight
     DEF Next, Work, Users

(* The types hold for any Modules, PreflightValidations and kernels: what  *)
(* is asked of the pipeline is always an answer of the mapper for some     *)
(* Module and kernel, and the pipeline answers once for an image.          *)
THEOREM TypeCorrect == Spec => []TypeOK
<1>1. TypeInv => TypeOK
  BY DEF TypeInv
<1> QED BY <1>1, TypeInit, TypeStep, PTL DEF Spec

-----------------------------------------------------------------------------
(* Verdicts                                                                *)

(* What the task read of m is what there is: a Module that changes, or     *)
(* another kernel, queues the PreflightValidation again.                   *)
ReadCurrent(p, m) ==
    LET mld == MLDOf(module[m].spec, preflight[p].kernelVersion)
    IN IF mld = NoMatch THEN m \in task.without
       ELSE m \notin task.without /\ [name |-> m, mld |-> mld] \in task.mlds

(* The verdict on m is the one of now, as far as the ModuleImagesConfig of *)
(* p can tell.                                                             *)
Judged(p, m) ==
    LET mld == MLDOf(module[m].spec, preflight[p].kernelVersion)
        status == preflight[p].status[m]
    IN /\ mld = NoMatch => status = "Failure"
       /\ mld # NoMatch => /\ status \in {"Success", "Failure", "InProgress"}
                           /\ mic[m].owner = p => status = Verdict(m, mld)

(* A Module in progress has the right question asked on behalf of p.       *)
Asked(p, m) ==
    LET mld == MLDOf(module[m].spec, preflight[p].kernelVersion)
    IN (mld # NoMatch /\ preflight[p].status[m] = "InProgress")
       => mic[m].owner = p /\ mic[m].spec = ModuleImageSpec(mld)

(* How far the Reconcile of a PreflightValidation that is not queued has   *)
(* come: verdicts are there before its last step, questions after it.      *)
Reconciled(p, m) ==
    /\ task.pv = p => ReadCurrent(p, m)
    /\ (task.pv = p => task.step = "process") => Judged(p, m)
    /\ task.pv # p => Asked(p, m)

RestInv ==
    /\ TypeInv
    /\ \A p \in Existing \ queue, m \in Modules : Live(m) => Reconciled(p, m)

(* Nothing changes for p and m while neither they nor the task do, and the *)
(* ModuleImagesConfig is the same or somebody else's before and after.     *)
LEMMA ReconciledStays ==
    ASSUME RestInv, NEW p \in Existing \ queue, NEW m \in Modules, Live(m),
           module'[m] = module[m], preflight'[p] = preflight[p],
           mic'[m] = mic[m] \/ (mic[m].owner # p /\ mic'[m].owner # p),
           task' = task \/ (task.pv # p /\ task'.pv # p)
    PROVE  Reconciled(p, m)'
<1>1. Reconciled(p, m)
  BY DEF RestInv
<1>2. Judged(p, m) => Judged(p, m)'
  BY DEF Judged, Verdict, GetImageState
<1>3. Asked(p, m) => Asked(p, m)'
  BY DEF Asked
<1>4. task' = task => (ReadCurrent(p, m) => ReadCurrent(p, m)')
  BY DEF ReadCurrent
<1> QED BY <1>1, <1>2, <1>3, <1>4 DEF Reconciled

(* getModulesData reads what there is.                                     *)
LEMMA RestGetModulesData ==
    ASSUME RestInv, TypeInv', NEW q \in Preflights, getModulesData(q)
    PROVE  RestInv'
<1> SUFFICES ASSUME NEW p \in (Existing \ queue)', NEW m \in Modules, Live(m)'
             PROVE  Reconciled(p, m)'
  BY DEF RestInv
<1>1. UNCHANGED <<module, preflight, mic>> /\ Live(m) /\ p \in Existing /\ p \in Preflights
  BY DEF getModulesData, Live, Existing
<1>2. task = Idle /\ task.pv # p
  BY <1>1, PreflightAssumption DEF getModulesData, RestInv, TypeInv, Bound, Idle
<1>3. CASE p # q
  <2>1. p \in Existing \ queue
    BY <1>1, <1>3 DEF getModulesData
  <2>2. task'.pv # p
    BY <1>2, <1>3 DEF getModulesData
  <2> QED BY <1>1, <1>2, <2>1, <2>2, ReconciledStays
<1>4. CASE p = q
  <2>1. task'.pv = p /\ task'.step = "updateStatus"
    BY <1>1, <1>4 DEF getModulesData, Existing
  <2>2. ReadCurrent(p, m)'
    <3> DEFINE mld == MLDOf(module[m].spec, preflight[p].kernelVersion)
               data == ModulesData(preflight[p].kernelVersion)
    <3>1. /\ task'.mlds = {d \in data : d.mld # NoMatch}
          /\ task'.without = {d.name : d \in {e \in data : e.mld = NoMatch}}
      BY <1>1, <1>4 DEF getModulesData, Existing
    <3>2. [name |-> m, mld |-> mld] \in data
      BY <1>1 DEF ModulesData
    <3>3. \A d \in data : d.name = m => d.mld = mld
      BY DEF ModulesData
    <3> HIDE DEF mld, data
    <3>4. IF mld = NoMatch THEN m \in task'.without
          ELSE m \notin task'.without /\ [name |-> m, mld |-> mld] \in task'.mlds
      <4> DEFINE e == [name |-> m, mld |-> mld]
      <4>1. e \in data /\ e.name = m /\ e.mld = mld
        BY <3>2
      <4> HIDE DEF e
      <4>2. mld = NoMatch => m \in task'.without
        BY <3>1, <4>1
      <4>3. mld # NoMatch => m \notin task'.without
        BY <3>1, <3>3
      <4>4. mld # NoMatch => e \in task'.mlds
        BY <3>1, <4>1
      <4> QED BY <4>2, <4>3, <4>4 DEF e
    <3> QED BY <1>1, <3>4 DEF ReadCurrent, mld
  <2> QED BY <2>1, <2>2 DEF Reconciled
<1> QED BY <1>3, <1>4

(* One answer of the mapper per Module: it is the one that is chosen.      *)
LEMMA OneAnswer ==
    ASSUME TypeInv, NEW m \in Modules, NEW mld, [name |-> m, mld |-> mld] \in task.mlds
    PROVE  (CHOOSE x \in task.mlds : x.name = m).mld = mld
<1> DEFINE e == [name |-> m, mld |-> mld]
           c == CHOOSE x \in task.mlds : x.name = m
<1>1. e \in task.mlds /\ e.name = m /\ e.mld = mld
  OBVIOUS
<1>2. c \in task.mlds /\ c.name = m
  BY <1>1
<1>3. c = e
  <2> HIDE DEF c, e
  <2> QED BY <1>1, <1>2 DEF TypeInv, Bound
<1> QED BY <1>1, <1>3

(* updateStatus writes the verdicts of now.                                *)
LEMMA RestUpdateStatus ==
    ASSUME RestInv, TypeInv', updateStatus
    PROVE  RestInv'
<1> SUFFICES ASSUME NEW p \in (Existing \ queue)', NEW m \in Modules, Live(m)'
             PROVE  Reconciled(p, m)'
  BY DEF RestInv
<1>1. UNCHANGED <<module, mic>> /\ Live(m) /\ p \in Preflights
  BY DEF updateStatus, Live, Existing
<1>t. task.pv \in Preflights /\ TypeInv
  BY DEF updateStatus, RestInv, TypeInv, Bound
<1>2. CASE ~preflight[task.pv].exists
  <2>1. UNCHANGED preflight /\ queue' = queue \cup {task.pv} /\ task' = Idle
    BY <1>2 DEF updateStatus, End
  <2>2. p \in Existing \ queue /\ p # task.pv /\ task'.pv # p
    BY <2>1, PreflightAssumption DEF Existing, Idle
  <2> QED BY <1>1, <2>1, <2>2, ReconciledStays
<1>3. CASE preflight[task.pv].exists
  <2> DEFINE S == SetModuleStatuses(preflight[task.pv].status)
  <2>1. /\ preflight' = [preflight EXCEPT ![task.pv].status = S]
        /\ UNCHANGED queue /\ task' = [task EXCEPT !.step = "process"]
    BY <1>3 DEF updateStatus
  <2>2. task'.pv = task.pv /\ task'.step = "process" /\ task'.mlds = task.mlds /\ task'.without = task.without
    BY <2>1, <1>t DEF TypeInv, TypeOK, TaskObject
  <2>3. /\ preflight'[p].exists = preflight[p].exists
        /\ preflight'[p].kernelVersion = preflight[p].kernelVersion
        /\ preflight'[p].status = IF p = task.pv THEN S ELSE preflight[p].status
        /\ p # task.pv => preflight'[p] = preflight[p]
    <3> HIDE DEF S
    <3> QED BY <2>1, <1>t, <1>1 DEF TypeInv, TypeOK, PreflightObject
  <2>4. p \in Existing \ queue
    BY <1>1, <2>1, <2>3 DEF Existing
  <2>5. CASE p # task.pv
    BY <1>1, <2>2, <2>3, <2>4, <2>5, ReconciledStays
  <2>6. CASE p = task.pv
    <3> DEFINE mld == MLDOf(module[m].spec, preflight[p].kernelVersion)
    <3>1. ReadCurrent(p, m)
      BY <1>1, <2>4, <2>6 DEF RestInv, Reconciled
    <3>2. ReadCurrent(p, m)'
      BY <3>1, <1>1, <2>2, <2>3 DEF ReadCurrent
    <3>3. mld = NoMatch => S[m] = "Failure"
      BY <3>1 DEF ReadCurrent, SetModuleStatuses
    <3>4. mld # NoMatch => S[m] = Verdict(m, mld)
      <4> SUFFICES ASSUME mld # NoMatch PROVE S[m] = Verdict(m, mld)
        OBVIOUS
      <4>1. m \notin task.without /\ [name |-> m, mld |-> mld] \in task.mlds
        BY <3>1 DEF ReadCurrent
      <4> HIDE DEF mld
      <4>2. (CHOOSE x \in task.mlds : x.name = m).mld = mld
        BY <4>1, <1>t, OneAnswer
      <4>3. \E x \in task.mlds : x.name = m
        <5>1. [name |-> m, mld |-> mld].name = m
          OBVIOUS
        <5> QED BY <4>1, <5>1
      <4> QED BY <4>1, <4>2, <4>3 DEF SetModuleStatuses
    <3>5. preflight'[p].status[m] = S[m]
      BY <2>3, <2>6
    <3> HIDE DEF S
    <3>6. /\ module'[m] = module[m] /\ mic'[m] = mic[m]
          /\ preflight'[p].kernelVersion = preflight[p].kernelVersion
      BY <1>1, <2>3
    <3>7. Judged(p, m)'
      BY <3>3, <3>4, <3>5, <3>6, VerdictRange DEF Judged, Verdict, GetImageState
    <3> QED BY <3>2, <3>7, <2>2, <2>6 DEF Reconciled
  <2> QED BY <2>5, <2>6
<1> QED BY <1>2, <1>3

(* processPreflightValidation asks every question that is open, or is      *)
(* called again.                                                           *)
LEMMA RestProcess ==
    ASSUME RestInv, TypeInv', processPreflightValidation
    PROVE  RestInv'
<1> SUFFICES ASSUME NEW p \in (Existing \ queue)', NEW m \in Modules, Live(m)'
             PROVE  Reconciled(p, m)'
  BY DEF RestInv
<1> DEFINE pending == {x \in task.mlds : preflight[task.pv].status[x.name] \notin {"Success", "Failure"}}
<1>1. UNCHANGED <<module, preflight>> /\ Live(m) /\ p \in Preflights /\ p \in Existing
  BY DEF processPreflightValidation, Live, Existing
<1>2. PICK done \in SUBSET {x \in pending : Owned(x.name)} :
          /\ mic' = [n \in Modules |-> IF \E x \in done : x.name = n
                                       THEN CreateOrPatch(n, (CHOOSE x \in done : x.name = n).mld)
                                       ELSE mic[n]]
          /\ End(done # pending, IF mic' = mic THEN {} ELSE {task.pv})
  BY DEF processPreflightValidation
<1>3. task' = Idle /\ task'.pv # p /\ p \in Existing \ queue
  BY <1>1, <1>2, PreflightAssumption DEF End, Idle
<1>t. task.step = "process" /\ TypeInv
  BY DEF processPreflightValidation, RestInv
<1>4. CASE p # task.pv
  <2>1. mic'[m] = mic[m] \/ (mic[m].owner # p /\ mic'[m].owner # p)
    <3>1. CASE \E x \in done : x.name = m
      <4>1. Owned(m)
        BY <3>1
      <4>2. mic[m].owner # p
        BY <4>1, <1>1, <1>4, <1>t, PreflightAssumption DEF Owned, TypeInv, Bound, NoMIC
      <4>3. mic'[m].owner = task.pv
        BY <3>1, <1>2 DEF CreateOrPatch
      <4> QED BY <4>2, <4>3, <1>4
    <3>2. CASE ~\E x \in done : x.name = m
      BY <3>2, <1>2
    <3> QED BY <3>1, <3>2
  <2> QED BY <1>1, <1>3, <1>4, <2>1, ReconciledStays
<1>5. CASE p = task.pv
  <2>1. mic' = mic /\ done = pending
    BY <1>2, <1>5 DEF End
  <2>2. Reconciled(p, m) /\ ReadCurrent(p, m) /\ Judged(p, m)
    BY <1>1, <1>3, <1>5, <1>t DEF RestInv, Reconciled
  <2>3. Judged(p, m)'
    BY <1>1, <2>1, <2>2 DEF Judged, Verdict, GetImageState
  <2>4. Asked(p, m)
    <3> DEFINE mld == MLDOf(module[m].spec, preflight[p].kernelVersion)
               e == [name |-> m, mld |-> mld]
               c == CHOOSE x \in done : x.name = m
    <3> SUFFICES ASSUME mld # NoMatch, preflight[p].status[m] = "InProgress"
                 PROVE  mic[m].owner = p /\ mic[m].spec = ModuleImageSpec(mld)
      BY DEF Asked
    <3>1. e \in task.mlds
      BY <2>2 DEF ReadCurrent
    <3>2. e.name = m /\ e.mld = mld
      OBVIOUS
    <3> HIDE DEF mld, e
    <3>3. e \in done
      BY <1>5, <2>1, <3>1, <3>2
    <3>4. c \in done /\ c.name = m
      BY <3>2, <3>3
    <3>5. c = e
      <4> HIDE DEF c
      <4> QED BY <3>1, <3>2, <3>4, <1>t DEF TypeInv, Bound
    <3>6. mic[m] = CreateOrPatch(m, mld)
      <4>1. mic'[m] = CreateOrPatch(m, c.mld)
        <5>1. \E x \in done : x.name = m
          BY <3>2, <3>3
        <5> QED BY <1>2, <5>1
      <4> HIDE DEF c
      <4> QED BY <4>1, <2>1, <3>2, <3>5
    <3> QED BY <3>6, <1>5 DEF CreateOrPatch
  <2>5. Asked(p, m)'
    BY <1>1, <2>1, <2>4 DEF Asked
  <2> QED BY <1>3, <2>3, <2>5 DEF Reconciled
<1> QED BY <1>4, <1>5

(* A call that fails queues the PreflightValidation again.                 *)
LEMMA RestCallFails ==
    ASSUME RestInv, TypeInv', CallFails
    PROVE  RestInv'
<1> SUFFICES ASSUME NEW p \in (Existing \ queue)', NEW m \in Modules, Live(m)'
             PROVE  Reconciled(p, m)'
  BY DEF RestInv
<1>1. UNCHANGED <<module, preflight, mic>> /\ Live(m) /\ p \in Existing /\ p \in Preflights
  BY DEF CallFails, Live, Existing
<1>2. p \in Existing \ queue /\ p # task.pv /\ task'.pv # p
  BY <1>1, PreflightAssumption DEF CallFails, End, Idle
<1> QED BY <1>1, <1>2, ReconciledStays

(* What the pipeline answers, or the garbage collector removes, is of a    *)
(* PreflightValidation that is queued for it.                              *)
LEMMA RestPipeline ==
    ASSUME RestInv, TypeInv', NEW n \in Modules, MICAnswers(n) \/ CollectMIC(n)
    PROVE  RestInv'
<1> SUFFICES ASSUME NEW p \in (Existing \ queue)', NEW m \in Modules, Live(m)'
             PROVE  Reconciled(p, m)'
  BY DEF RestInv
<1>1. /\ UNCHANGED <<module, preflight, task>> /\ Live(m) /\ p \in Existing /\ p \in Preflights
      /\ queue' = queue \cup {mic[n].owner}
  BY DEF MICAnswers, CollectMIC, Live, Existing
<1>2. p \in Existing \ queue /\ mic[n].owner # p
  BY <1>1
<1>3. mic[n] \in MICObject /\ mic \in [Modules -> MICObject]
  BY DEF RestInv, TypeInv, TypeOK
<1>4. mic'[n].owner \in {mic[n].owner, None} /\ \A x \in Modules : x # n => mic'[x] = mic[x]
  <2>1. CASE CollectMIC(n)
    BY <2>1, <1>3 DEF CollectMIC, NoMIC
  <2>2. CASE MICAnswers(n)
    <3>1. PICK a : mic' = [mic EXCEPT ![n].states = @ \cup a]
      BY <2>2 DEF MICAnswers
    <3> QED BY <3>1, <1>3 DEF MICObject
  <2> QED BY <2>1, <2>2
<1>5. mic'[m] = mic[m] \/ (mic[m].owner # p /\ mic'[m].owner # p)
  BY <1>1, <1>2, <1>4, PreflightAssumption
<1> QED BY <1>1, <1>2, <1>5, ReconciledStays

(* Users' changes of a PreflightValidation queue it.                       *)
LEMMA RestWritePreflight ==
    ASSUME RestInv, TypeInv', NEW q \in Preflights,
           DeletePreflight(q) \/ \E k \in Kernels : WritePreflight(q, k)
    PROVE  RestInv'
<1> SUFFICES ASSUME NEW p \in (Existing \ queue)', NEW m \in Modules, Live(m)'
             PROVE  Reconciled(p, m)'
  BY DEF RestInv
<1>1. UNCHANGED <<module, mic, task>> /\ Live(m) /\ p \in Preflights /\ queue' = queue \cup {q}
  BY DEF DeletePreflight, WritePreflight, Live, Existing
<1>2. p # q /\ p \notin queue
  BY <1>1
<1>3. preflight'[p] = preflight[p]
  BY <1>1, <1>2 DEF DeletePreflight, WritePreflight, RestInv, TypeInv, TypeOK
<1>4. p \in Existing \ queue
  BY <1>1, <1>2, <1>3 DEF Existing
<1> QED BY <1>1, <1>3, <1>4, ReconciledStays

(* Every step keeps the invariant.                                         *)
LEMMA RestStep == RestInv /\ [Next]_vars => RestInv'
<1> SUFFICES ASSUME RestInv, [Next]_vars PROVE RestInv'
  OBVIOUS
<1>t. TypeInv'
  BY TypeStep DEF RestInv
<1>1. ASSUME UNCHANGED <<module, preflight, mic, queue, task>> PROVE RestInv'
  <2> SUFFICES ASSUME NEW p \in (Existing \ queue)', NEW m \in Modules, Live(m)'
               PROVE  Reconciled(p, m)'
    BY <1>t DEF RestInv
  <2>1. Live(m) /\ p \in Existing \ queue
    BY <1>1 DEF Live, Existing
  <2> QED BY <1>1, <2>1, ReconciledStays
<1>2. ASSUME NEW m \in Modules, CreateModule(m) \/ EditModule(m) \/ DeleteModule(m) \/ ModuleGone(m)
      PROVE  RestInv'
  <2>1. queue' = queue \cup Existing /\ UNCHANGED preflight
    BY <1>2 DEF CreateModule, EditModule, DeleteModule, ModuleGone, WriteModule
  <2>2. (Existing \ queue)' = {}
    BY <2>1 DEF Existing
  <2> QED BY <2>2, <1>t DEF RestInv
<1> QED
  BY <1>t, <1>1, <1>2, RestGetModulesData, RestUpdateStatus, RestProcess, RestCallFails, RestPipeline,
     RestWritePreflight
     DEF Next, Work, Users, UploadImage, vars

(* A verdict is an answer the pipeline gave for the image.                 *)
LEMMA VerdictGiven ==
    ASSUME TypeInv, NEW m \in Modules, NEW mld
    PROVE  /\ Verdict(m, mld) = "InProgress"
              => \A s \in mic[m].states : s.image # mld.containerImage
           /\ Verdict(m, mld) # "InProgress"
              => \E s \in mic[m].states : Answers(s, Verdict(m, mld), ModuleImageSpec(mld))
<1> DEFINE given == {s \in mic[m].states : s.image = mld.containerImage}
           answer == CHOOSE s \in mic[m].states : s.image = mld.containerImage
<1>1. CASE given = {}
  <2>1. GetImageState(m, mld.containerImage) = ""
    BY <1>1 DEF GetImageState
  <2> QED BY <1>1, <2>1 DEF Verdict
<1>2. CASE given # {}
  <2>1. answer \in mic[m].states /\ answer.image = mld.containerImage
    BY <1>2
  <2>2. GetImageState(m, mld.containerImage) = answer.state
    BY <1>2 DEF GetImageState
  <2> HIDE DEF answer
  <2>3. answer.state \in {"ImageExists", "ImageDoesNotExist"} /\ answer.asked.image = answer.image
    <3>1. mic[m].states \subseteq ImageState
      BY DEF TypeInv, TypeOK, MICObject
    <3> QED BY <2>1, <3>1 DEF TypeInv, Bound, ImageState
  <2>4. Verdict(m, mld) = IF answer.state = "ImageExists" THEN "Success" ELSE "Failure"
    BY <2>2, <2>3 DEF Verdict
  <2>5. ModuleImageSpec(mld).image = mld.containerImage
    BY DEF ModuleImageSpec
  <2> HIDE DEF given
  <2>6. Answers(answer, Verdict(m, mld), ModuleImageSpec(mld))
    BY <2>1, <2>3, <2>4, <2>5 DEF Answers, Reused
  <2> QED BY <2>1, <2>4, <2>6
<1> QED BY <1>1, <1>2

(* At rest, for any Modules and PreflightValidations, every verdict is the *)
(* pipeline's answer for the image of the Module and the kernel of now,    *)
(* given for their settings or for others with the same image, and a       *)
(* Module in progress has the question asked that is open: neither the     *)
(* task's old reading of Modules, nor the ModuleImagesConfig two           *)
(* PreflightValidations share, nor a call that fails in between leaves the *)
(* verdict on another image behind.                                        *)
THEOREM VerdictsRightAtRest == Spec => []VerdictsRestRight
<1>1. Init => RestInv
  <2>1. Init => Existing = {}
    <3>1. NoPreflight.exists = FALSE
      BY DEF NoPreflight
    <3> QED BY <3>1 DEF Init, Existing
  <2> QED BY <2>1, TypeInit DEF RestInv
<1>2. RestInv => VerdictsRestRight
  <2> SUFFICES ASSUME RestInv, AtRest, NEW p \in Existing, NEW m \in Modules, Live(m)
               PROVE  LET mld == MLDOf(module[m].spec, preflight[p].kernelVersion)
                          status == preflight[p].status[m]
                      IN /\ mld = NoMatch => status = "Failure"
                         /\ mld # NoMatch =>
                               IF mic[m].owner = p
                               THEN IF status = "InProgress"
                                    THEN /\ mic[m].spec = ModuleImageSpec(mld)
                                         /\ \A s \in mic[m].states : s.image # mld.containerImage
                                    ELSE \E s \in mic[m].states : Answers(s, status, ModuleImageSpec(mld))
                               ELSE status \in {"Success", "Failure"}
    BY DEF VerdictsRestRight
  <2>1. task.pv # p /\ p \in Existing \ queue
    BY PreflightAssumption DEF AtRest, RestInv, TypeInv, Bound, Idle, Existing
  <2>2. Judged(p, m) /\ Asked(p, m)
    BY <2>1 DEF RestInv, Reconciled
  <2> DEFINE mld == MLDOf(module[m].spec, preflight[p].kernelVersion)
             status == preflight[p].status[m]
  <2>3. /\ mld = NoMatch => status = "Failure"
        /\ mld # NoMatch => /\ status \in {"Success", "Failure", "InProgress"}
                            /\ mic[m].owner = p => status = Verdict(m, mld)
                            /\ status = "InProgress" => /\ mic[m].owner = p
                                                        /\ mic[m].spec = ModuleImageSpec(mld)
    BY <2>2 DEF Judged, Asked
  <2> HIDE DEF mld, status
  <2>4. /\ status = Verdict(m, mld) /\ status = "InProgress"
            => \A s \in mic[m].states : s.image # mld.containerImage
        /\ status = Verdict(m, mld) /\ status # "InProgress"
            => \E s \in mic[m].states : Answers(s, status, ModuleImageSpec(mld))
    BY VerdictGiven DEF RestInv
  <2> QED BY <2>3, <2>4 DEF mld, status
<1> QED BY <1>1, <1>2, RestStep, PTL DEF Spec

-----------------------------------------------------------------------------
(* Admission                                                               *)

(* A set of indices has a first one.                                       *)
LEMMA FirstIndex ==
    ASSUME NEW S \in SUBSET Nat, S # {}
    PROVE  \E i \in S : \A j \in S : i <= j
<1>1. PICK i \in S : \A j \in S : ~(<<j, i>> \in OpToRel(<, Nat))
  BY NatLessThanWellFounded, WFMin, Zenon
<1>2. \A j \in S : ~(j < i)
  BY <1>1 DEF OpToRel
<1> QED BY <1>2

(* findKernelMapping returns one of the mappings that matches, an error    *)
(* for a regexp that does not compile, or that there is none.              *)
LEMMA MappingFound ==
    ASSUME NEW mappings, Listed(mappings), NEW k,
           \A m \in ToSet(mappings) : m.regexp # InvalidRegexp
    PROVE  \/ findKernelMapping(mappings, k) = NoMatch
           \/ findKernelMapping(mappings, k) \in ToSet(mappings)
<1> SUFFICES ASSUME \E i \in DOMAIN mappings : Decides(mappings[i], k)
             PROVE  findKernelMapping(mappings, k) \in ToSet(mappings)
  BY DEF findKernelMapping
<1> DEFINE S == {i \in DOMAIN mappings : Decides(mappings[i], k)}
           First(i) == /\ Decides(mappings[i], k)
                       /\ \A j \in 1..(i - 1) : ~Decides(mappings[j], k)
<1>1. DOMAIN mappings = 1..Len(mappings) /\ Len(mappings) \in Nat
  BY DEF Listed
<1>2. PICK i \in S : \A j \in S : i <= j
  <2>1. S \subseteq Nat /\ S # {}
    BY <1>1
  <2> HIDE DEF S
  <2> QED BY <2>1, FirstIndex
<1>3. First(i) /\ i \in DOMAIN mappings
  BY <1>1, <1>2
<1>4. (CHOOSE x \in DOMAIN mappings : First(x)) \in DOMAIN mappings
  BY <1>3
<1>5. findKernelMapping(mappings, k) = mappings[CHOOSE x \in DOMAIN mappings : First(x)]
  BY <1>4 DEF findKernelMapping, ToSet
<1> QED BY <1>4, <1>5 DEF ToSet

(* Neither a mapping nor the settings made from it are an error.           *)
LEMMA NotAnError ==
    ASSUME NEW r, "error" \notin DOMAIN r
    PROVE  r # NoMatch /\ r # Failed
<1>1. "error" \in DOMAIN NoMatch /\ "error" \in DOMAIN Failed
  BY DEF NoMatch, Failed
<1> QED BY <1>1

(* An image keeps its tag when the kernel is filled in.                    *)
LEMMA ReplacedImage ==
    ASSUME NEW c, SectionsTyped(c), c.containerImage # None, NEW k \in Kernels
    PROVE  /\ Replaced(c.containerImage, k) # None
           /\ Replaced(c.containerImage, k).tagged = c.containerImage.tagged
<1> DEFINE image == c.containerImage
<1>1. PICK kernel \in Kernels \cup {None} : Replaced(image, k) = [image EXCEPT !.kernel = kernel]
  BY DEF Replaced
<1>2. [image EXCEPT !.kernel = kernel] # None /\ "tagged" \in DOMAIN image
  BY DEF SectionsTyped, ImageFields
<1> QED BY <1>1, <1>2

(* The same for a file to sign.                                            *)
LEMMA ReplacedFile ==
    ASSUME NEW f, DOMAIN f = FileFields, f.underDirName, NEW k
    PROVE  Replaced(f, k).underDirName
BY DEF Replaced, FileFields

(* The files to sign are listed, are there, and are under dirName.         *)
SignReady(sign) ==
    /\ DOMAIN sign = SignFields
    /\ Listed(sign.filesToSign) /\ sign.filesToSign # << >>
    /\ \A f \in ToSet(sign.filesToSign) : DOMAIN f = FileFields /\ f.underDirName

(* A sign section the webhook let in is.                                   *)
LEMMA SectionReady ==
    ASSUME NEW c, SectionsTyped(c), validateSignSection(c.sign), c.sign # None
    PROVE  SignReady(c.sign)
BY DEF SectionsTyped, validateSignSection, SignReady, Has

(* What getRelevantSign merges is ready when both parts are.               *)
LEMMA SignMerged ==
    ASSUME NEW module_, module_ # None => SignReady(module_),
           NEW mapping, mapping # None => SignReady(mapping), NEW k,
           getRelevantSign(module_, mapping, k) \notin {None, Failed}
    PROVE  LET sign == getRelevantSign(module_, mapping, k)
           IN /\ sign.filesToSign # << >>
              /\ \A f \in ToSet(sign.filesToSign) : f.underDirName
<1> DEFINE merged == IF module_ = None \/ mapping = None THEN Or(mapping, module_)
                     ELSE [unsignedImage |-> Or(mapping.unsignedImage, module_.unsignedImage),
                           keySecret |-> Or(mapping.keySecret, module_.keySecret),
                           certSecret |-> Or(mapping.certSecret, module_.certSecret),
                           filesToSign |-> module_.filesToSign \o mapping.filesToSign]
           sign == getRelevantSign(module_, mapping, k)
<1>1. merged # None
  BY DEF getRelevantSign
<1>2. SignReady(merged)
  <2>1. CASE module_ = None \/ mapping = None
    BY <1>1, <2>1 DEF Or
  <2>2. CASE module_ # None /\ mapping # None
    <3> DEFINE a == module_.filesToSign
               b == mapping.filesToSign
    <3>1. /\ a \in Seq(ToSet(a)) /\ b \in Seq(ToSet(b)) /\ a # << >> /\ b # << >>
          /\ \A f \in ToSet(a) \cup ToSet(b) : DOMAIN f = FileFields /\ f.underDirName
      BY <2>2 DEF SignReady, Listed
    <3>2. merged.filesToSign = a \o b /\ DOMAIN merged = SignFields
      BY <2>2 DEF SignFields
    <3> HIDE DEF a, b, merged
    <3>3. /\ a \o b \in Seq(ToSet(a) \cup ToSet(b)) /\ a \o b # << >>
          /\ DOMAIN (a \o b) = 1..Len(a \o b)
      <4>1. a \in Seq(ToSet(a) \cup ToSet(b)) /\ b \in Seq(ToSet(a) \cup ToSet(b))
        BY <3>1
      <4> QED BY <3>1, <4>1
    <3>4. ToSet(a \o b) \subseteq ToSet(a) \cup ToSet(b)
      BY <3>3 DEF ToSet
    <3>5. a \o b \in Seq(ToSet(a \o b))
      <4> DEFINE s == a \o b
      <4>1. s \in Seq(ToSet(a) \cup ToSet(b))
        BY <3>3
      <4> HIDE DEF s
      <4>2. \A i \in 1..Len(s) : s[i] \in ToSet(s)
        BY <4>1 DEF ToSet
      <4>3. s \in Seq(ToSet(s))
        BY <4>1, <4>2
      <4> QED BY <4>3 DEF s
    <3> QED BY <3>1, <3>2, <3>3, <3>4, <3>5 DEF SignReady, Listed
  <2> QED BY <2>1, <2>2
<1>3. sign = [merged EXCEPT !.unsignedImage = Replaced(@, k),
                            !.filesToSign = [i \in DOMAIN @ |-> Replaced(@[i], k)]]
  BY <1>1 DEF getRelevantSign
<1> HIDE DEF merged
<1> DEFINE files == merged.filesToSign
<1>4. sign.filesToSign = [i \in DOMAIN files |-> Replaced(files[i], k)]
  BY <1>2, <1>3 DEF SignReady, SignFields
<1>5. /\ DOMAIN files = 1..Len(files) /\ Len(files) \in Nat /\ files # << >>
      /\ files \in Seq(ToSet(files))
  BY <1>2 DEF SignReady, Listed
<1>6. \A i \in DOMAIN files : Replaced(files[i], k).underDirName
  <2> TAKE i \in DOMAIN files
  <2>1. files[i] \in ToSet(files)
    BY DEF ToSet
  <2> QED BY <2>1, <1>2, ReplacedFile DEF SignReady
<1> HIDE DEF sign, files
<1>7. sign.filesToSign # << >>
  <2>1. 1 \in DOMAIN files
    BY <1>5
  <2>2. DOMAIN sign.filesToSign # {}
    BY <2>1, <1>4
  <2> QED BY <2>2
<1>8. \A f \in ToSet(sign.filesToSign) : f.underDirName
  BY <1>4, <1>6 DEF ToSet
<1> QED BY <1>7, <1>8 DEF sign

(* Only a template that does not parse makes getRelevantSign fail.         *)
LEMMA SignFails ==
    ASSUME NEW module_, module_ # None => SignReady(module_),
           NEW mapping, mapping # None => SignReady(mapping), NEW k,
           getRelevantSign(module_, mapping, k) = Failed
    PROVE  \E sign \in {module_, mapping} \ {None} :
               Malformed(sign.unsignedImage) \/ \E f \in ToSet(sign.filesToSign) : Malformed(f)
<1> DEFINE merged == IF module_ = None \/ mapping = None THEN Or(mapping, module_)
                     ELSE [unsignedImage |-> Or(mapping.unsignedImage, module_.unsignedImage),
                           keySecret |-> Or(mapping.keySecret, module_.keySecret),
                           certSecret |-> Or(mapping.certSecret, module_.certSecret),
                           filesToSign |-> module_.filesToSign \o mapping.filesToSign]
           Bad(sign) == Malformed(sign.unsignedImage) \/ \E f \in ToSet(sign.filesToSign) : Malformed(f)
           replaced == [merged EXCEPT !.unsignedImage = Replaced(@, k),
                                      !.filesToSign = [i \in DOMAIN @ |-> Replaced(@[i], k)]]
<1>1. merged # None
  BY ErrorAssumption DEF getRelevantSign
<1>2. Bad(merged)
  <2>1. CASE ~Bad(merged)
    <3>1. replaced = Failed
      BY <1>1, <2>1 DEF getRelevantSign
    <3>2. DOMAIN merged = SignFields
      BY <1>1 DEF SignReady, Or, SignFields
    <3>3. DOMAIN replaced = SignFields
      BY <3>2
    <3> HIDE DEF replaced
    <3> QED BY <3>1, <3>3, NotAnError DEF SignFields
  <2> QED BY <2>1
<1>3. CASE module_ = None \/ mapping = None
  BY <1>1, <1>2, <1>3 DEF Or
<1>4. CASE module_ # None /\ mapping # None
  <2> DEFINE a == module_.filesToSign
             b == mapping.filesToSign
  <2>1. a \in Seq(ToSet(a)) /\ b \in Seq(ToSet(b))
    BY <1>4 DEF SignReady, Listed
  <2>2. merged.filesToSign = a \o b /\ merged.unsignedImage \in {module_.unsignedImage, mapping.unsignedImage}
    BY <1>4 DEF Or
  <2> HIDE DEF a, b, merged
  <2>3. ToSet(a \o b) \subseteq ToSet(a) \cup ToSet(b)
    <3>1. a \in Seq(ToSet(a) \cup ToSet(b)) /\ b \in Seq(ToSet(a) \cup ToSet(b))
      BY <2>1
    <3>2. a \o b \in Seq(ToSet(a) \cup ToSet(b))
      BY <3>1
    <3> QED BY <3>2 DEF ToSet
  <2>4. Bad(module_) \/ Bad(mapping)
    BY <1>2, <2>2, <2>3 DEF a, b
  <2> QED BY <1>4, <2>4
<1> QED BY <1>3, <1>4

(* What the mapper makes of a loader the webhook let in is complete for    *)
(* every kernel, unless a template does not parse.                         *)
LEMMA LoaderComplete ==
    ASSUME NEW spec, ModuleSpecTyped(spec), spec.moduleLoader # None, validateModule(spec, TRUE),
           NEW k \in Kernels
    PROVE  Complete(spec.moduleLoader, k)
<1> DEFINE container == spec.moduleLoader
           mapping == findKernelMapping(container.kernelMappings, k)
           mld == GetModuleLoaderDataForKernel(container, k)
           prepared == prepareModuleLoaderData(container, mapping, k)
<1>1. /\ SectionsTyped(container) /\ Listed(container.kernelMappings)
      /\ \A m \in ToSet(container.kernelMappings) : SectionsTyped(m) /\ DOMAIN m = KernelMappingFields
      /\ validateModuleLoaderContainerSpec(container) /\ validateFilesToSign(container)
  BY DEF ModuleSpecTyped, validateModule
<1> HIDE DEF container
<1>3. mapping = NoMatch \/ mapping \in ToSet(container.kernelMappings)
  <2>1. \A m \in ToSet(container.kernelMappings) : m.regexp # InvalidRegexp
    BY <1>1 DEF validateModuleLoaderContainerSpec, validateKernelMapping
  <2> QED BY <1>1, <2>1, MappingFound
<1>4. CASE mapping = NoMatch
  <2>1. mld = NoMatch
    BY <1>4 DEF GetModuleLoaderDataForKernel
  <2> QED BY <2>1 DEF Complete, container
<1>5. CASE mapping \in ToSet(container.kernelMappings)
  <2>1. mapping # NoMatch /\ mapping # Failed
    BY <1>1, <1>5, NotAnError DEF KernelMappingFields
  <2>2. CASE k \in ShortKernels
    <3>1. mld = Failed
      BY <2>1, <2>2 DEF GetModuleLoaderDataForKernel
    <3> QED BY <2>2, <3>1 DEF Complete, container
  <2>a. validateKernelMapping(container, mapping) /\ SectionsTyped(mapping)
    BY <1>1, <1>5 DEF validateModuleLoaderContainerSpec
  <2>b. container.sign # None => SignReady(container.sign)
    BY <1>1, SectionReady DEF validateFilesToSign
  <2>c. mapping.sign # None => SignReady(mapping.sign)
    <3>1. validateSignSection(mapping.sign)
      BY <1>1, <1>5 DEF validateFilesToSign
    <3> HIDE DEF mapping
    <3> QED BY <2>a, <3>1, SectionReady
  <2>4. CASE k \notin ShortKernels /\ (prepared.sign = Failed \/ Malformed(prepared.containerImage))
    <3>1. mld = Failed
      BY <2>1, <2>4 DEF GetModuleLoaderDataForKernel
    <3>2. Unparsable(container, mapping)
      <4> HIDE DEF mapping
      <4>1. /\ prepared.sign = getRelevantSign(container.sign, mapping.sign, k)
            /\ prepared.containerImage = Or(mapping.containerImage, container.containerImage)
        BY DEF prepareModuleLoaderData
      <4> HIDE DEF prepared
      <4>2. CASE prepared.sign = Failed
        BY <2>b, <2>c, <4>1, <4>2, SignFails DEF Unparsable
      <4>3. CASE Malformed(prepared.containerImage)
        BY <4>1, <4>3 DEF Unparsable
      <4> QED BY <2>4, <4>2, <4>3
    <3> QED BY <3>1, <3>2 DEF Complete, container
  <2>3. CASE k \notin ShortKernels /\ prepared.sign # Failed /\ ~Malformed(prepared.containerImage)
    <3>1. mld = [prepared EXCEPT !.containerImage = Replaced(@, k)]
      BY <2>1, <2>3 DEF GetModuleLoaderDataForKernel
    <3>2. validateKernelMapping(container, mapping) /\ SectionsTyped(mapping)
      BY <2>a
    <3> HIDE DEF mapping
    <3>3. /\ DOMAIN mld = {"containerImage", "build", "sign", "kernelVersion", "inTreeModulesToRemove"}
          /\ mld.containerImage = Replaced(Or(mapping.containerImage, container.containerImage), k)
          /\ mld.sign = getRelevantSign(container.sign, mapping.sign, k) /\ mld.sign # Failed
      BY <2>3, <3>1 DEF prepareModuleLoaderData
    <3> HIDE DEF mld, prepared
    <3>4. mld # Failed
      BY <3>3, NotAnError
    <3>5. mld.containerImage # None /\ mld.containerImage.tagged
      <4>1. CASE mapping.containerImage # None
        BY <4>1, <3>2, <3>3, ReplacedImage DEF validateKernelMapping, validateImageFormat, Or
      <4>2. CASE mapping.containerImage = None
        <5>1. container.containerImage # None /\ container.containerImage.tagged
          BY <4>2, <3>2, <1>1
             DEF validateKernelMapping, validateModuleLoaderContainerSpec, validateImageFormat
        <5> QED BY <4>2, <5>1, <3>3, <1>1, ReplacedImage DEF Or
      <4> QED BY <4>1, <4>2
    <3>6. ~ /\ Or(mapping.inTreeModuleToRemove, container.inTreeModuleToRemove) # None
            /\ Or(mapping.inTreeModulesToRemove, container.inTreeModulesToRemove) # None
      BY <3>2, <1>1 DEF validateKernelMapping, validateModuleLoaderContainerSpec, Or
    <3>7. mld.sign # None => /\ mld.sign.filesToSign # << >>
                             /\ \A f \in ToSet(mld.sign.filesToSign) : f.underDirName
      BY <2>b, <2>c, <3>3, SignMerged
    <3> QED BY <3>4, <3>5, <3>6, <3>7 DEF Complete, container, mapping, mld
  <2> QED BY <2>2, <2>3, <2>4
<1> QED BY <1>3, <1>4, <1>5

(* The worker has modules to load, and unloads what it loaded.             *)
LEMMA ModprobeRunnable ==
    ASSUME NEW modprobe, ModprobeTyped(modprobe), validateModprobe(modprobe)
    PROVE  Runnable(modprobe)
<1> DEFINE raw == modprobe.rawArgs
           name == modprobe.moduleName
           order == modprobe.modulesLoadingOrder
<1>1. raw.set \in BOOLEAN /\ raw.load \in BOOLEAN /\ raw.unload \in BOOLEAN
      /\ (raw.load \/ raw.unload => raw.set)
  BY DEF ModprobeTyped
<1>2. CASE name = None
  <2>1. LoadArgs(modprobe) = {"raw"} /\ UnloadArgs(modprobe) = {"raw"}
    BY <1>1, <1>2 DEF validateModprobe, LoadArgs, UnloadArgs
  <2> QED BY <2>1, KernelMappingAssumption DEF Runnable
<1>3. CASE name # None /\ raw.set
  BY <1>1, <1>3 DEF validateModprobe, Runnable
<1>4. CASE name # None /\ ~raw.set
  <2>1. LoadArgs(modprobe) = {name}
    BY <1>4 DEF LoadArgs
  <2>2. name \in UnloadArgs(modprobe)
    <3>1. CASE order = None
      BY <1>4, <3>1 DEF UnloadArgs
    <3>2. CASE order # None
      <4>1. Len(order) >= 2 /\ order[1] = name /\ order \in Seq(ToSet(order))
        BY <3>2 DEF validateModprobe, ModprobeTyped, Listed
      <4>2. 1 \in DOMAIN order
        BY <4>1
      <4>3. name \in ToSet(order)
        BY <4>1, <4>2 DEF ToSet
      <4> QED BY <1>4, <3>2, <4>3 DEF UnloadArgs
    <3> QED BY <3>1, <3>2
  <2> QED BY <2>1, <2>2, <1>4 DEF Runnable
<1> QED BY <1>1, <1>2, <1>3, <1>4

(* DeviceClasses of an admitted Module have different names.               *)
LEMMA DeviceClassesApart ==
    ASSUME NEW dra, dra # None, Listed(dra.deviceClasses), validateDRA(dra, TRUE)
    PROVE  IsInjective(dra.deviceClasses)
<1> DEFINE classes == dra.deviceClasses
<1>1. DOMAIN classes = 1..Len(classes) /\ Len(classes) \in Nat
  BY DEF Listed
<1>2. \A i \in DOMAIN classes : \A j \in 1..(i - 1) : classes[j] # classes[i]
  BY DEF validateDRA
<1> HIDE DEF classes
<1>3. ASSUME NEW a \in DOMAIN classes, NEW b \in DOMAIN classes, classes[a] = classes[b] PROVE a = b
  BY <1>1, <1>2, <1>3
<1> QED BY <1>3 DEF IsInjective, classes

(* The longest prefix or suffix of a label name has 22 characters.         *)
LEMMA LabelOverheads ==
    ASSUME NEW o \in Range(VersionLabelOverhead) \cup Range(NodeLabelOverhead)
    PROVE  o \in 0..22
BY DEF Range, VersionLabelOverhead, NodeLabelOverhead

(* A Module that is live passed the webhook.                               *)
Admitted ==
    \A m \in Modules : Live(m) => module[m].spec \in Candidates /\ validateModule(module[m].spec, TRUE)

(* Modules are only written through the webhook.                           *)
LEMMA AdmittedStep == TypeInv /\ Admitted /\ [Next]_vars => Admitted'
<1> SUFFICES ASSUME TypeInv, Admitted, [Next]_vars PROVE Admitted'
  OBVIOUS
<1>1. CASE UNCHANGED module
  BY <1>1 DEF Admitted, Live
<1>2. ASSUME NEW m \in Modules, CreateModule(m) \/ EditModule(m) \/ DeleteModule(m) \/ ModuleGone(m)
      PROVE  Admitted'
  <2>1. PICK new : /\ module' = [module EXCEPT ![m] = new]
                   /\ new.phase = "live" => new.spec \in Candidates /\ validateModule(new.spec, TRUE)
    <3>1. CASE CreateModule(m) \/ EditModule(m)
      <4>1. PICK s \in Candidates : /\ validateModule(s, TRUE)
                                    /\ module' = [module EXCEPT ![m] = [phase |-> "live", spec |-> s]]
        BY <3>1 DEF CreateModule, EditModule, WriteModule, Admissible, ValidateUpdate
      <4> DEFINE new == [phase |-> "live", spec |-> s]
      <4>2. new.spec = s
        OBVIOUS
      <4> HIDE DEF new
      <4>3. module' = [module EXCEPT ![m] = new]
        BY <4>1 DEF new
      <4> QED BY <4>1, <4>2, <4>3
    <3>2. CASE DeleteModule(m)
      <4>1. module[m] \in ModuleObject
        BY DEF TypeInv, TypeOK
      <4>2. [module[m] EXCEPT !.phase = "deleting"].phase # "live"
        BY <4>1 DEF ModuleObject
      <4> QED BY <3>2, <4>2 DEF DeleteModule, WriteModule
    <3>3. CASE ModuleGone(m)
      <4>1. NoModule.phase # "live"
        BY DEF NoModule
      <4> QED BY <3>3, <4>1 DEF ModuleGone
    <3> QED BY <1>2, <3>1, <3>2, <3>3
  <2> QED BY <2>1 DEF Admitted, Live, TypeInv, TypeOK
<1>3. CASE Next
  BY <1>1, <1>2, <1>3
     DEF Next, Work, Users, getModulesData, updateStatus, processPreflightValidation, CallFails,
         MICAnswers, CollectMIC, DeletePreflight, WritePreflight, UploadImage
<1> QED BY <1>1, <1>3 DEF vars

(* For any specs users try: a Module that the webhook let in is one for    *)
(* which the mapper finds complete settings or none on every kernel,       *)
(* unless a template does not parse, the worker has something to load and  *)
(* to unload, DeviceClasses do not overwrite each other and every label    *)
(* name fits.                                                              *)
THEOREM AdmittedAreUsable == Spec => []AdmittedUsable
<1>1. Init => Admitted
  <2>1. NoModule.phase = "none"
    BY DEF NoModule
  <2> QED BY <2>1 DEF Init, Admitted, Live
<1>2. Admitted => AdmittedUsable
  <2> SUFFICES ASSUME Admitted, NEW m \in Modules, Live(m)
               PROVE  LET spec == module[m].spec
                      IN /\ spec.moduleLoader # None =>
                               /\ \A k \in Kernels : Complete(spec.moduleLoader, k)
                               /\ Runnable(spec.moduleLoader.modprobe)
                         /\ spec.dra # None => IsInjective(spec.dra.deviceClasses)
                         /\ \A overhead \in Range(VersionLabelOverhead) \cup Range(NodeLabelOverhead) :
                               spec.nameLength + overhead <= 63
    BY DEF AdmittedUsable
  <2> DEFINE spec == module[m].spec
  <2>1. ModuleSpecTyped(spec) /\ validateModule(spec, TRUE)
    BY PreflightAssumption DEF Admitted
  <2> HIDE DEF spec
  <2>2. spec.moduleLoader # None => \A k \in Kernels : Complete(spec.moduleLoader, k)
    BY <2>1, LoaderComplete
  <2>3. spec.moduleLoader # None => Runnable(spec.moduleLoader.modprobe)
    BY <2>1, ModprobeRunnable DEF ModuleSpecTyped, validateModule
  <2>4. spec.dra # None => IsInjective(spec.dra.deviceClasses)
    BY <2>1, DeviceClassesApart DEF ModuleSpecTyped, validateModule
  <2>5. \A overhead \in Range(VersionLabelOverhead) \cup Range(NodeLabelOverhead) :
            spec.nameLength + overhead <= 63
    <3> TAKE overhead \in Range(VersionLabelOverhead) \cup Range(NodeLabelOverhead)
    <3>1. spec.nameLength \in 0..41
      BY <2>1 DEF ModuleSpecTyped, validateModule, maxCombinedLength
    <3>2. overhead \in 0..22
      BY LabelOverheads
    <3> QED BY <3>1, <3>2
  <2> QED BY <2>2, <2>3, <2>4, <2>5 DEF spec
<1> QED BY <1>1, <1>2, TypeInit, TypeStep, AdmittedStep, PTL DEF Spec

=============================================================================
