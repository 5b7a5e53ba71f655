---------------------------- MODULE KernelMapping ----------------------------
(***************************************************************************)
(* What a Module says for a kernel: the admission webhook                  *)
(* (internal/webhook/module.go), which decides what Modules there can be,  *)
(* and the kernel mapper (internal/module/kernelmapper.go), which merges   *)
(* the mapping of a kernel into the settings of the container.             *)
(*                                                                         *)
(* Names, paths and images are abstracted to what the code tells apart;    *)
(* a template is "none", "kernel" or "malformed".                          *)
(* None stands for a nil pointer or an empty string.                       *)
(***************************************************************************)
EXTENDS Naturals, Sequences, SequencesExt

CONSTANTS
    Kernels,        \* kernel versions
    ShortKernels,   \* those with fewer than three components
    InvalidRegexp,  \* a regexp that does not compile
    None

ASSUME KernelMappingAssumption ==
    /\ ShortKernels \subseteq Kernels
    /\ None # "raw"

-----------------------------------------------------------------------------
(* The API types, by the fields that this module reads.  A list of build   *)
(* arguments is a function; rawArgs tells which of its lists there are.    *)

BuildFields == {"dockerfile", "args", "secrets"}

SignFields == {"unsignedImage", "keySecret", "certSecret", "filesToSign"}

KernelMappingFields == {"literal", "regexp", "containerImage", "build", "sign",
                        "inTreeModuleToRemove", "inTreeModulesToRemove"}

ModprobeSpecFields == {"moduleName", "rawArgs", "modulesLoadingOrder", "modprobedDir"}

ModuleLoaderContainerSpecFields ==
    {"containerImage", "build", "sign", "version", "inTreeModuleToRemove",
     "inTreeModulesToRemove", "modprobe", "kernelMappings"}

DRASpecFields == {"driverName", "deviceClasses", "hostPaths", "initProbe"}

DevicePluginSpecFields == {"hostPaths", "initProbe"}

ImageFields == {"name", "tagged", "template", "kernel"}

FileFields == {"underDirName", "template", "kernel"}

Has(value, fields) == value # None => DOMAIN value = fields

(* What the schema of the API server asks of a Module: at least one kernel *)
(* mapping, and not both a DRA driver and a device plugin.                 *)
SchemaValid(mod) ==
    /\ mod.dra = None \/ mod.devicePlugin = None
    /\ mod.moduleLoader # None => mod.moduleLoader.kernelMappings # << >>

Listed(list) == list \in Seq(ToSet(list))

(* The sections that a loader and each of its mappings can have.  No image *)
(* is None, whatever kernel it is for.                                     *)
SectionsTyped(c) ==
    /\ c.containerImage # None =>
          /\ DOMAIN c.containerImage = ImageFields
          /\ \A k \in Kernels \cup {None} : [c.containerImage EXCEPT !.kernel = k] # None
    /\ Has(c.build, BuildFields) /\ Has(c.sign, SignFields)
    /\ c.sign # None => /\ Listed(c.sign.filesToSign)
                        /\ \A f \in ToSet(c.sign.filesToSign) : DOMAIN f = FileFields

(* rawArgs that is not set has no arguments.                               *)
ModprobeTyped(modprobe) ==
    /\ DOMAIN modprobe = ModprobeSpecFields
    /\ modprobe.rawArgs \in [set: BOOLEAN, load: BOOLEAN, unload: BOOLEAN]
    /\ modprobe.rawArgs.load \/ modprobe.rawArgs.unload => modprobe.rawArgs.set
    /\ modprobe.modulesLoadingOrder # None => Listed(modprobe.modulesLoadingOrder)

ModuleSpecTyped(mod) ==
    /\ mod.nameLength \in Nat
    /\ Has(mod.dra, DRASpecFields) /\ Has(mod.devicePlugin, DevicePluginSpecFields)
    /\ mod.dra # None => Listed(mod.dra.deviceClasses)
    /\ Has(mod.moduleLoader, ModuleLoaderContainerSpecFields)
    /\ mod.moduleLoader # None =>
          /\ ModprobeTyped(mod.moduleLoader.modprobe)
          /\ SectionsTyped(mod.moduleLoader)
          /\ Listed(mod.moduleLoader.kernelMappings)
          /\ \A m \in ToSet(mod.moduleLoader.kernelMappings) :
                SectionsTyped(m) /\ DOMAIN m = KernelMappingFields

-----------------------------------------------------------------------------
(* The results of the mapper that are not data.                            *)
NoMatch == [error |-> "ErrNoMatchingKernelMapping"]

Failed == [error |-> "error"]

ASSUME ErrorAssumption == None # Failed

-----------------------------------------------------------------------------
(* The kernel mapper.  A regexp is the set of kernels it matches.          *)

(* findKernelMapping: what the mappings up to the first one that matches,  *)
(* or whose regexp does not compile, lead to.                              *)
LiteralMatches(m, k) == m.literal # None /\ m.literal = k

Decides(m, k) ==
    \/ LiteralMatches(m, k)
    \/ m.regexp = InvalidRegexp
    \/ m.regexp \notin {None, InvalidRegexp} /\ k \in m.regexp

findKernelMapping(mappings, k) ==
    IF \E i \in DOMAIN mappings : Decides(mappings[i], k)
    THEN LET first == CHOOSE i \in DOMAIN mappings :
                         /\ Decides(mappings[i], k)
                         /\ \A j \in 1..(i - 1) : ~Decides(mappings[j], k)
         IN IF LiteralMatches(mappings[first], k) \/ mappings[first].regexp # InvalidRegexp
            THEN mappings[first] ELSE Failed
    ELSE NoMatch

Or(mapping, container) == IF mapping # None THEN mapping ELSE container

(* getRelevantBuild: the Dockerfile and the arguments of the mapping       *)
(* override, its secrets are added.                                        *)
getRelevantBuild(module, mapping) ==
    IF module = None \/ mapping = None THEN Or(mapping, module)
    ELSE [dockerfile |-> Or(mapping.dockerfile, module.dockerfile),
          args |-> [a \in DOMAIN mapping.args \cup DOMAIN module.args |->
                       IF a \in DOMAIN mapping.args THEN mapping.args[a] ELSE module.args[a]],
          secrets |-> module.secrets \o mapping.secrets]

(* ReplaceInTemplates: an image or a path with a template is another one   *)
(* for every kernel; a template that does not parse, such as one without   *)
(* its closing brace, is an error.                                         *)
Malformed(image) == image # None /\ image.template = "malformed"

Replaced(image, k) ==
    IF image = None THEN None
    ELSE [image EXCEPT !.kernel = IF image.template = "kernel" THEN k ELSE None]

(* getRelevantSign: the files of both are signed.                          *)
getRelevantSign(module, mapping, k) ==
    LET sign == IF module = None \/ mapping = None THEN Or(mapping, module)
                ELSE [unsignedImage |-> Or(mapping.unsignedImage, module.unsignedImage),
                      keySecret |-> Or(mapping.keySecret, module.keySecret),
                      certSecret |-> Or(mapping.certSecret, module.certSecret),
                      filesToSign |-> module.filesToSign \o mapping.filesToSign]
    IN IF sign = None THEN None
       ELSE IF Malformed(sign.unsignedImage) \/ \E f \in ToSet(sign.filesToSign) : Malformed(f)
       THEN Failed
       ELSE [sign EXCEPT !.unsignedImage = Replaced(@, k),
                         !.filesToSign = [i \in DOMAIN @ |-> Replaced(@[i], k)]]

(* prepareModuleLoaderData: the list of in-tree modules gives way to the   *)
(* deprecated single name, which the webhook keeps apart.                  *)
InTree(container, mapping) ==
    LET single == Or(mapping.inTreeModuleToRemove, container.inTreeModuleToRemove)
    IN IF single # None THEN {single}
       ELSE Or(mapping.inTreeModulesToRemove, container.inTreeModulesToRemove)

prepareModuleLoaderData(container, mapping, k) ==
    [containerImage |-> Or(mapping.containerImage, container.containerImage),
     build |-> getRelevantBuild(container.build, mapping.build),
     sign |-> getRelevantSign(container.sign, mapping.sign, k),
     kernelVersion |-> k,
     inTreeModulesToRemove |-> InTree(container, mapping)]

(* GetModuleLoaderDataForKernel, replaceTemplates.  A kernel version that  *)
(* has no three components makes no template variables.                    *)
GetModuleLoaderDataForKernel(container, k) ==
    LET mapping == findKernelMapping(container.kernelMappings, k)
    IN IF mapping \in {NoMatch, Failed} THEN mapping
       ELSE IF k \in ShortKernels THEN Failed
       ELSE LET mld == prepareModuleLoaderData(container, mapping, k)
            IN IF mld.sign = Failed \/ Malformed(mld.containerImage) THEN Failed
               ELSE [mld EXCEPT !.containerImage = Replaced(@, k)]

-----------------------------------------------------------------------------
(* The admission webhook                                                   *)

maxCombinedLength == 41

validateTolerations(tolerations) ==
    \A t \in ToSet(tolerations) :
        /\ t.key # "invalid"
        /\ t.key = "" => t.operator = "Exists"
        /\ t.tolerationSeconds => t.effect = "NoExecute"
        /\ \/ t.operator \in {"Equal", ""} /\ t.value # "invalid"
           \/ t.operator = "Exists" /\ t.value = ""
        /\ t.effect \in {"", "NoSchedule", "PreferNoSchedule", "NoExecute"}

(* The init container of a section may have no probe.                      *)
validateSection(section) ==
    /\ ToSet(section.hostPaths) \subseteq {"/dev", "/sys", "/var", "/opt", "/run"}
    /\ ~section.initProbe

(* kubeVersion is checked where the webhook knows it.                      *)
validateDRA(dra, kubeHasDRA) ==
    dra # None =>
        /\ kubeHasDRA
        /\ dra.driverName \notin {"", "invalid"}
        /\ \A i \in DOMAIN dra.deviceClasses :
              /\ dra.deviceClasses[i] \notin {"", "invalid"}
              /\ \A j \in 1..(i - 1) : dra.deviceClasses[j] # dra.deviceClasses[i]

validateImageFormat(image) == image.tagged

(* Mutant: a mapping is not compared with the container. *)
validateKernelMappingApart(container, m) ==
    /\ m.regexp = None <=> m.literal # None
    /\ m.regexp # InvalidRegexp
    /\ IF m.containerImage = None THEN container.containerImage # None
       ELSE validateImageFormat(m.containerImage)
    /\ m.inTreeModulesToRemove = None \/ m.inTreeModuleToRemove = None

validateKernelMapping(container, m) ==
    /\ m.regexp = None <=> m.literal # None
    /\ m.regexp # InvalidRegexp
    /\ IF m.containerImage = None THEN container.containerImage # None
       ELSE validateImageFormat(m.containerImage)
    /\ m.inTreeModulesToRemove = None \/ m.inTreeModuleToRemove = None
    /\ m.inTreeModulesToRemove = None \/ container.inTreeModuleToRemove = None
    /\ m.inTreeModuleToRemove = None \/ container.inTreeModulesToRemove = None

validateModuleLoaderContainerSpec(container) ==
    /\ container.inTreeModulesToRemove = None \/ container.inTreeModuleToRemove = None
    /\ container.containerImage = None \/ validateImageFormat(container.containerImage)
    /\ \A m \in ToSet(container.kernelMappings) : validateKernelMapping(container, m)

(* load and unload: rawArgs has arguments for it.                          *)
validateModprobe(modprobe) ==
    /\ IF modprobe.moduleName # None
       THEN ~modprobe.rawArgs.load /\ ~modprobe.rawArgs.unload
       ELSE modprobe.rawArgs.load /\ modprobe.rawArgs.unload
    /\ modprobe.modulesLoadingOrder # None =>
          /\ Len(modprobe.modulesLoadingOrder) >= 2
          /\ modprobe.moduleName # None
          /\ modprobe.modulesLoadingOrder[1] = modprobe.moduleName
          /\ IsInjective(modprobe.modulesLoadingOrder)
    /\ modprobe.modprobedDir \in {"", "absolute"}

validateSignSection(sign) ==
    sign # None => /\ sign.filesToSign # << >>
                   /\ \A f \in ToSet(sign.filesToSign) : f.underDirName

validateFilesToSign(container) ==
    /\ validateSignSection(container.sign)
    /\ \A m \in ToSet(container.kernelMappings) : validateSignSection(m.sign)

validateModule(mod, kubeHasDRA) ==
    /\ mod.nameLength <= maxCombinedLength
    /\ validateTolerations(mod.tolerations)
    /\ validateDRA(mod.dra, kubeHasDRA)
    /\ mod.dra # None => validateSection(mod.dra)
    /\ mod.devicePlugin # None => validateSection(mod.devicePlugin)
    /\ mod.moduleLoader # None =>
          /\ validateModuleLoaderContainerSpec(mod.moduleLoader)
          /\ validateModprobe(mod.moduleLoader.modprobe)
          /\ validateFilesToSign(mod.moduleLoader)

(* A version comes or goes only with the Module, and so do the loader and  *)
(* the DRA driver.                                                         *)
ValidateUpdate(old, new, kubeHasDRA) ==
    /\ (old.moduleLoader = None) = (new.moduleLoader = None)
    /\ (old.moduleLoader # None /\ new.moduleLoader # None) =>
          (old.moduleLoader.version = "") = (new.moduleLoader.version = "")
    /\ old.dra # None => new.dra # None /\ old.dra.driverName = new.dra.driverName
    /\ validateModule(new, kubeHasDRA)

-----------------------------------------------------------------------------
(* What the rest of the operator takes for granted                         *)

(* The worker's modprobe arguments (internal/worker/worker.go).            *)
LoadArgs(modprobe) ==
    IF modprobe.rawArgs.set THEN (IF modprobe.rawArgs.load THEN {"raw"} ELSE {})
    ELSE {modprobe.moduleName} \ {None}

UnloadArgs(modprobe) ==
    IF modprobe.rawArgs.set THEN (IF modprobe.rawArgs.unload THEN {"raw"} ELSE {})
    ELSE IF modprobe.modulesLoadingOrder # None THEN ToSet(modprobe.modulesLoadingOrder)
    ELSE {modprobe.moduleName} \ {None}

(* The names of the labels in internal/utils/kmmlabels.go are the Module's *)
(* namespace and name with a prefix or a suffix of this many characters.   *)
VersionLabelOverhead == [version_module |-> 16, version_worker_pod |-> 20,
                         version_schedule_pod |-> 22]

NodeLabelOverhead == [ready |-> 7, version_ready |-> 15, device_plugin_ready |-> 21,
                      dra_ready |-> 11, dra_target |-> 12, device_plugin_target |-> 22]

=============================================================================
