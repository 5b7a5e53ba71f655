------------------------------ MODULE Preflight ------------------------------
(***************************************************************************)
(* Preflight validation                                                    *)
(* (internal/controllers/preflightvalidation_reconciler.go,                *)
(* internal/preflight): before a kernel upgrade, every Module is checked   *)
(* against the new kernel.  For each, a ModuleImagesConfig "<name>-        *)
(* preflight" is handed to the pipeline of ImagePipeline, whose answer     *)
(* here is one step.  Modules pass through the webhook of KernelMapping.   *)
(***************************************************************************)
EXTENDS KernelMapping, FiniteSets

CONSTANTS
    Modules,        \* names of Modules
    Preflights,     \* names of PreflightValidations
    Candidates,     \* bound: what users try to create or edit a Module to
    MaxChanges,     \* bound: changes of users
    MaxFailures     \* bound: API calls that fail

ASSUME PreflightAssumption ==
    /\ \A s \in Candidates : ModuleSpecTyped(s)
    /\ None \notin Preflights
    /\ MaxChanges \in Nat /\ MaxFailures \in Nat

VARIABLES
    module,     \* the Module objects
    preflight,  \* the PreflightValidation objects
    mic,        \* per Module, its preflight ModuleImagesConfig
    registry,   \* images that can be pulled
    queue,      \* PreflightValidations queued
    task,       \* the Reconcile in progress (MaxConcurrentReconciles is 1)
    changes, failures

vars == <<module, preflight, mic, registry, queue, task, changes, failures>>

-----------------------------------------------------------------------------
(* Objects                                                                 *)

Verdicts == {"", "InProgress", "Success", "Failure"}

NoModule == [phase |-> "none", spec |-> None]

NoPreflight == [exists |-> FALSE, kernelVersion |-> None, status |-> [m \in Modules |-> ""]]

(* spec: the one image with its sections; states: what ImagesStates says   *)
(* of this and of earlier images, and, for the properties only, which spec *)
(* each answer was given for.                                              *)
NoMIC == [exists |-> FALSE, owner |-> None, spec |-> None, states |-> {}]

Idle == [step |-> "idle", pv |-> None, kernelVersion |-> None, mlds |-> {}, without |-> {}]

(* What a mapping yields for the Modules and kernels there are.  A loader  *)
(* that is not there is dereferenced all the same.                         *)
MLDOf(spec, k) ==
    IF spec.moduleLoader = None THEN Failed ELSE GetModuleLoaderDataForKernel(spec.moduleLoader, k)

Live(m) == module[m].phase = "live"

Results == {MLDOf(s, k) : s \in Candidates, k \in Kernels} \ {NoMatch, Failed}

Images == {r.containerImage : r \in Results}

(* micObjSpec: what the pipeline is asked.                                 *)
ModuleImageSpec(mld) ==
    [image |-> mld.containerImage, kernelVersion |-> mld.kernelVersion,
     build |-> mld.build, sign |-> mld.sign]

ImageSpecs == {ModuleImageSpec(r) : r \in Results}

ModuleObject == [phase: {"none", "live", "deleting"}, spec: Candidates \cup {None}]

PreflightObject == [exists: BOOLEAN, kernelVersion: Kernels \cup {None}, status: [Modules -> Verdicts]]

ImageState == [image: Images, state: {"ImageExists", "ImageDoesNotExist"}, asked: ImageSpecs]

MICObject == [exists: BOOLEAN, owner: Preflights \cup {None}, spec: ImageSpecs \cup {None},
              states: SUBSET ImageState]

TaskObject == [step: {"idle", "updateStatus", "process"}, pv: Preflights \cup {None},
               kernelVersion: Kernels \cup {None}, mlds: SUBSET [name: Modules, mld: Results],
               without: SUBSET Modules]

TypeOK ==
    /\ module \in [Modules -> ModuleObject]
    /\ preflight \in [Preflights -> PreflightObject]
    /\ mic \in [Modules -> MICObject]
    /\ \A m \in Modules : \A s, t \in mic[m].states : s.image = t.image => s = t
    /\ registry \subseteq Images
    /\ queue \subseteq Preflights
    /\ task \in TaskObject
    /\ changes \in 0..MaxChanges /\ failures \in 0..MaxFailures

Init ==
    /\ module = [m \in Modules |-> NoModule]
    /\ preflight = [p \in Preflights |-> NoPreflight]
    /\ mic = [m \in Modules |-> NoMIC]
    /\ registry = {}
    /\ queue = {} /\ task = Idle
    /\ changes = 0 /\ failures = 0

-----------------------------------------------------------------------------
(* Reconcile                                                               *)

(* The end of Reconcile; an error queues the PreflightValidation again.    *)
End(failed, changed) ==
    /\ task' = Idle
    /\ queue' = queue \cup changed \cup (IF failed THEN {task.pv} ELSE {})

(* getModulesData: Modules being deleted are left out.  Any error but a    *)
(* missing mapping ends the Reconcile for all.                             *)
ModulesData(k) == {[name |-> m, mld |-> MLDOf(module[m].spec, k)] : m \in {x \in Modules : Live(x)}}

getModulesData(p) ==
    /\ task.step = "idle"
    /\ p \in queue
    /\ \E data \in {ModulesData(preflight[p].kernelVersion)} :
          IF ~preflight[p].exists \/ \E d \in data : d.mld = Failed
          THEN /\ queue' = IF preflight[p].exists THEN queue ELSE queue \ {p}
               /\ UNCHANGED task
          ELSE /\ queue' = queue \ {p}
               /\ task' = [step |-> "updateStatus", pv |-> p, kernelVersion |-> preflight[p].kernelVersion,
                           mlds |-> {d \in data : d.mld # NoMatch},
                           without |-> {d.name : d \in {e \in data : e.mld = NoMatch}}]
    /\ UNCHANGED <<module, preflight, mic, registry, changes, failures>>

GetImageState(m, image) ==
    IF \E s \in mic[m].states : s.image = image
    THEN (CHOOSE s \in mic[m].states : s.image = image).state ELSE ""

Verdict(m, mld) ==
    CASE GetImageState(m, mld.containerImage) = "ImageExists" -> "Success"
      [] GetImageState(m, mld.containerImage) = "ImageDoesNotExist" -> "Failure"
      [] OTHER -> "InProgress"

(* SetModuleStatus replaces or appends; statuses of other Modules stay.    *)
SetModuleStatuses(status) ==
    [m \in Modules |->
        IF m \in task.without THEN "Failure"
        ELSE IF \E p \in task.mlds : p.name = m
             THEN Verdict(m, (CHOOSE p \in task.mlds : p.name = m).mld)
             ELSE status[m]]

updateStatus ==
    /\ task.step = "updateStatus"
    /\ LET found == preflight[task.pv].exists
       IN /\ preflight' = IF found THEN [preflight EXCEPT ![task.pv].status = SetModuleStatuses(@)]
                          ELSE preflight
          /\ IF found THEN task' = [task EXCEPT !.step = "process"] /\ UNCHANGED queue
             ELSE End(TRUE, {})
    /\ UNCHANGED <<module, mic, registry, changes, failures>>

(* processPreflightValidation: a Module with a verdict is left alone.  The *)
(* ModuleImagesConfig of another PreflightValidation cannot be taken over. *)
Owned(m) == ~mic[m].exists \/ mic[m].owner = task.pv

(* Mutant: an existing ModuleImagesConfig is not patched. *)
CreateOrPatchCreates(m, mld) ==
    [exists |-> TRUE, owner |-> task.pv,
     spec |-> IF mic[m].exists THEN mic[m].spec ELSE ModuleImageSpec(mld), states |-> mic[m].states]

CreateOrPatch(m, mld) ==
    [exists |-> TRUE, owner |-> task.pv, spec |-> ModuleImageSpec(mld), states |-> mic[m].states]

(* Mutant: errors of single Modules are not returned. *)
processPreflightValidationIgnores ==
    /\ task.step = "process"
    /\ LET pending == {p \in task.mlds : preflight[task.pv].status[p.name] \notin {"Success", "Failure"}}
       IN \E done \in SUBSET {p \in pending : Owned(p.name)} :
             /\ LET lost == {p \in pending : Owned(p.name)} \ done
                IN /\ lost # {} => failures < MaxFailures
                   /\ failures' = IF lost # {} THEN failures + 1 ELSE failures
             /\ mic' = [m \in Modules |-> IF \E p \in done : p.name = m
                                          THEN CreateOrPatch(m, (CHOOSE p \in done : p.name = m).mld)
                                          ELSE mic[m]]
             /\ End(FALSE, IF mic' = mic THEN {} ELSE {task.pv})
    /\ UNCHANGED <<module, preflight, registry, changes>>

processPreflightValidation ==
    /\ task.step = "process"
    /\ LET pending == {p \in task.mlds : preflight[task.pv].status[p.name] \notin {"Success", "Failure"}}
       IN \E done \in SUBSET {p \in pending : Owned(p.name)} :
             /\ LET lost == {p \in pending : Owned(p.name)} \ done
                IN /\ lost # {} => failures < MaxFailures
                   /\ failures' = IF lost # {} THEN failures + 1 ELSE failures
             /\ mic' = [m \in Modules |-> IF \E p \in done : p.name = m
                                          THEN CreateOrPatch(m, (CHOOSE p \in done : p.name = m).mld)
                                          ELSE mic[m]]
             /\ End(done # pending, IF mic' = mic THEN {} ELSE {task.pv})
    /\ UNCHANGED <<module, preflight, registry, changes>>

CallFails ==
    /\ task.step # "idle"
    /\ failures < MaxFailures /\ failures' = failures + 1
    /\ End(TRUE, {})
    /\ UNCHANGED <<module, preflight, mic, registry, changes>>

Work == updateStatus \/ processPreflightValidation

-----------------------------------------------------------------------------
(* The image pipeline and the garbage collector                            *)

(* An image that cannot be pulled is built or signed, with either outcome; *)
(* without these sections the pull Pod waits for it, since the spec does   *)
(* not ask to skip the wait.                                               *)
MICAnswers(m) ==
    /\ mic[m].exists
    /\ LET image == mic[m].spec.image
           sections == mic[m].spec.build # None \/ mic[m].spec.sign # None
       IN /\ GetImageState(m, image) = ""
          /\ \E state \in (IF image \in registry THEN {"ImageExists"}
                           ELSE IF sections THEN {"ImageExists", "ImageDoesNotExist"} ELSE {}) :
                mic' = [mic EXCEPT ![m].states =
                           @ \cup {[image |-> image, state |-> state, asked |-> mic[m].spec]}]
    /\ queue' = queue \cup {mic[m].owner}
    /\ UNCHANGED <<module, preflight, registry, task, changes, failures>>

CollectMIC(m) ==
    /\ mic[m].exists /\ ~preflight[mic[m].owner].exists
    /\ mic' = [mic EXCEPT ![m] = NoMIC]
    /\ queue' = queue \cup {mic[m].owner}
    /\ UNCHANGED <<module, preflight, registry, task, changes, failures>>

-----------------------------------------------------------------------------
(* Users                                                                   *)

Change == changes < MaxChanges /\ changes' = changes + 1

Existing == {p \in Preflights : preflight[p].exists}

(* EnqueueAllPreflightValidations.                                         *)
WriteModule(m, new) ==
    /\ Change
    /\ module' = [module EXCEPT ![m] = new]
    /\ queue' = queue \cup Existing
    /\ UNCHANGED <<preflight, mic, registry, task, failures>>

Admissible == {s \in Candidates : SchemaValid(s) /\ validateModule(s, TRUE)}

CreateModule(m) ==
    /\ module[m].phase = "none"
    /\ \E s \in Admissible :
          WriteModule(m, [phase |-> "live", spec |-> s])

EditModule(m) ==
    /\ Live(m)
    /\ \E s \in {c \in Admissible \ {module[m].spec} : ValidateUpdate(module[m].spec, c, TRUE)} :
          WriteModule(m, [phase |-> "live", spec |-> s])

DeleteModule(m) ==
    /\ Live(m)
    /\ WriteModule(m, [module[m] EXCEPT !.phase = "deleting"])

ModuleGone(m) ==
    /\ module[m].phase = "deleting"
    /\ module' = [module EXCEPT ![m] = NoModule]
    /\ queue' = queue \cup Existing
    /\ UNCHANGED <<preflight, mic, registry, task, changes, failures>>

(* validatePreflight asks for three components of the kernel version.      *)
WritePreflight(p, k) ==
    /\ k \notin ShortKernels /\ preflight[p].kernelVersion # k
    /\ Change
    /\ preflight' = [preflight EXCEPT ![p].exists = TRUE, ![p].kernelVersion = k]
    /\ queue' = queue \cup {p}
    /\ UNCHANGED <<module, mic, registry, task, failures>>

DeletePreflight(p) ==
    /\ preflight[p].exists
    /\ Change
    /\ preflight' = [preflight EXCEPT ![p] = NoPreflight]
    /\ queue' = queue \cup {p}
    /\ UNCHANGED <<module, mic, registry, task, failures>>

UploadImage(i) ==
    /\ i \notin registry
    /\ Change
    /\ registry' = registry \cup {i}
    /\ UNCHANGED <<module, preflight, mic, queue, task, failures>>

Users ==
    \/ \E m \in Modules : CreateModule(m) \/ EditModule(m) \/ DeleteModule(m) \/ ModuleGone(m)
    \/ \E p \in Preflights : DeletePreflight(p) \/ \E k \in Kernels : WritePreflight(p, k)
    \/ \E i \in Images : UploadImage(i)

-----------------------------------------------------------------------------

Next ==
    \/ \E p \in Preflights : getModulesData(p)
    \/ Work \/ CallFails
    \/ \E m \in Modules : MICAnswers(m) \/ CollectMIC(m)
    \/ Users

(* The work queue serves its keys in turn, so that a PreflightValidation   *)
(* that keeps failing does not starve another.                             *)
Fairness ==
    /\ WF_vars(Work)
    /\ \A p \in Preflights : SF_vars(getModulesData(p))
    /\ \A m \in Modules : WF_vars(MICAnswers(m)) /\ WF_vars(CollectMIC(m))

Spec == Init /\ [][Next]_vars /\ Fairness

-----------------------------------------------------------------------------
(* Properties                                                              *)

AtRest == queue = {} /\ task.step = "idle"

(* A Module the webhook let in is one the operator can work with: for      *)
(* every kernel the mapper finds no mapping or settings that are complete  *)
(* (a tagged image, in-tree modules named in one way only as               *)
(* kernelmapper.go assumes, files to sign under dirName), the worker has   *)
(* modules to load and to unload, DeviceClasses do not overwrite each      *)
(* other and all label names fit.  Two things the webhook lets in are      *)
(* excepted: the mapper fails on a template that does not parse in the     *)
(* image or sign section that applies, and on nothing else, and rawArgs    *)
(* may be set but empty beside a moduleName.                               *)
Unparsable(container, mapping) ==
    \/ Malformed(Or(mapping.containerImage, container.containerImage))
    \/ \E sign \in {container.sign, mapping.sign} \ {None} :
          Malformed(sign.unsignedImage) \/ \E f \in ToSet(sign.filesToSign) : Malformed(f)

Complete(container, k) ==
    LET mld == GetModuleLoaderDataForKernel(container, k)
        mapping == findKernelMapping(container.kernelMappings, k)
    IN mld = NoMatch \/ (mld = Failed /\ (k \in ShortKernels \/ Unparsable(container, mapping))) \/
       /\ mld # Failed
       /\ mld.containerImage # None /\ mld.containerImage.tagged
       /\ ~ /\ Or(mapping.inTreeModuleToRemove, container.inTreeModuleToRemove) # None
            /\ Or(mapping.inTreeModulesToRemove, container.inTreeModulesToRemove) # None
       /\ mld.sign # None => /\ mld.sign.filesToSign # << >>
                             /\ \A f \in ToSet(mld.sign.filesToSign) : f.underDirName

Runnable(modprobe) ==
    LET empty == modprobe.rawArgs.set /\ ~modprobe.rawArgs.load /\ ~modprobe.rawArgs.unload
    IN empty \/ /\ LoadArgs(modprobe) # {} /\ LoadArgs(modprobe) # {None}
                /\ UnloadArgs(modprobe) # {}
                /\ LoadArgs(modprobe) \subseteq UnloadArgs(modprobe)

AdmittedUsable ==
    \A m \in Modules : Live(m) =>
        LET spec == module[m].spec
        IN /\ spec.moduleLoader # None =>
                 /\ \A k \in Kernels : Complete(spec.moduleLoader, k)
                 /\ Runnable(spec.moduleLoader.modprobe)
           /\ spec.dra # None => IsInjective(spec.dra.deviceClasses)
           /\ \A overhead \in Range(VersionLabelOverhead) \cup Range(NodeLabelOverhead) :
                 spec.nameLength + overhead <= 63

(* At rest every verdict is the pipeline's answer for the image that the   *)
(* Module of now has for the kernel of now, and a Module still in progress *)
(* has a ModuleImagesConfig of this PreflightValidation for exactly its    *)
(* current settings: it never waits for the answer to an older question.   *)
(* The code goes by the name of the image.  So an answer given for other   *)
(* settings stands where they have the same image (Reused): a build or     *)
(* sign section, or a kernel, edited under an image without a template is  *)
(* not validated again.  A verdict read from the ModuleImagesConfig of     *)
(* another PreflightValidation may outlive it.                             *)
Reused(asked, settings) == asked # settings /\ asked.image = settings.image

Answers(answer, status, settings) ==
    /\ answer.image = settings.image
    /\ status = IF answer.state = "ImageExists" THEN "Success" ELSE "Failure"
    /\ answer.asked = settings \/ Reused(answer.asked, settings)

VerdictsRestRight ==
    AtRest => \A p \in Existing, m \in {x \in Modules : Live(x)} :
        LET mld == MLDOf(module[m].spec, preflight[p].kernelVersion)
            status == preflight[p].status[m]
        IN /\ mld = NoMatch => status = "Failure"
           /\ mld # NoMatch =>
                 IF mic[m].owner = p
                 THEN IF status = "InProgress"
                      THEN /\ mic[m].spec = ModuleImageSpec(mld)
                           /\ \A s \in mic[m].states : s.image # mld.containerImage
                      ELSE \E s \in mic[m].states : Answers(s, status, ModuleImageSpec(mld))
                 ELSE status \in {"Success", "Failure"}

(* The only PreflightValidation, in a cluster of Modules none of which the *)
(* mapper fails on, reaches a verdict on every Module whose image can be   *)
(* pulled or that has a build or sign section for the kernel, and on every *)
(* one without a mapping.                                                  *)
Alone(p) ==
    /\ Existing = {p}
    /\ \A m \in Modules : Live(m) => MLDOf(module[m].spec, preflight[p].kernelVersion) # Failed

Decided(p, m) ==
    LET mld == MLDOf(module[m].spec, preflight[p].kernelVersion)
    IN (/\ Live(m) /\ mld # Failed
        /\ \/ mld = NoMatch
           \/ mld.containerImage \in registry \/ mld.build # None \/ mld.sign # None)
       => preflight[p].status[m] \in {"Success", "Failure"}

PreflightCompletes ==
    \A p \in Preflights : <>[]Alone(p) => <>[](\A m \in Modules : Decided(p, m))

=============================================================================
