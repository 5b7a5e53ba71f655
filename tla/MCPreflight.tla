----------------------------- MODULE MCPreflight -----------------------------
EXTENDS Preflight

CONSTANTS k1, k2, short

Image(name, template) == [name |-> name, tagged |-> TRUE, template |-> template, kernel |-> None]

File == [underDirName |-> TRUE, template |-> "kernel", kernel |-> None]

Mapping(literal, regexp, image) ==
    [literal |-> literal, regexp |-> regexp, containerImage |-> image, build |-> None, sign |-> None,
     inTreeModuleToRemove |-> None, inTreeModulesToRemove |-> None]

Modprobe == [moduleName |-> "mod", rawArgs |-> [set |-> FALSE, load |-> FALSE, unload |-> FALSE],
             modulesLoadingOrder |-> <<"mod", "dep">>, modprobedDir |-> ""]

Build(file) == [dockerfile |-> file, args |-> [x \in {"a"} |-> file], secrets |-> <<file>>]

Sign == [unsignedImage |-> None, keySecret |-> "key", certSecret |-> "cert", filesToSign |-> <<File>>]

\* One image per kernel, for every kernel that is not short.
Loader == [containerImage |-> Image("x", "kernel"), build |-> None, sign |-> None, version |-> "",
           inTreeModuleToRemove |-> None, inTreeModulesToRemove |-> None, modprobe |-> Modprobe,
           kernelMappings |-> <<Mapping(None, {k1, k2}, None)>>]

Toleration == [key |-> "ok", operator |-> "Equal", tolerationSeconds |-> FALSE, effect |-> "", value |-> "ok"]

Plugin == [hostPaths |-> <<"/dev">>, initProbe |-> FALSE]

Driver == [driverName |-> "d", deviceClasses |-> <<"c", "e">>, hostPaths |-> <<"/dev">>, initProbe |-> FALSE]

Plain == [nameLength |-> 41, tolerations |-> <<Toleration>>, dra |-> None, devicePlugin |-> Plugin,
          moduleLoader |-> Loader]

\* Mappings by kernel: a build for k1, a sign section and the in-tree list
\* for k2, each overriding or adding to the container's.
Mapped == [Plain EXCEPT
    !.moduleLoader.build = Build("f"), !.moduleLoader.sign = Sign,
    !.moduleLoader.inTreeModulesToRemove = {"t"},
    !.moduleLoader.kernelMappings =
        <<[Mapping(k1, None, Image("y", "none")) EXCEPT !.build = Build("g")],
          [Mapping(None, {k1, k2}, None) EXCEPT !.sign = Sign, !.inTreeModulesToRemove = {"u"}]>>]

\* Only k1 is mapped, to the image it has in Mapped, and it is built in
\* another way.  The DRA driver cannot be taken away.
OnlyK1 == [Plain EXCEPT !.dra = Driver, !.devicePlugin = None,
                        !.moduleLoader.kernelMappings = <<Mapping(k1, None, Image("y", "none"))>>,
                        !.moduleLoader.build = Build("f")]

\* What each check of the schema and the webhook is there to refuse.
Refused == {
    [Plain EXCEPT !.nameLength = 42],
    [Plain EXCEPT !.dra = Driver],
    [Plain EXCEPT !.dra = [Driver EXCEPT !.deviceClasses = <<"c", "c">>], !.devicePlugin = None],
    [Plain EXCEPT !.tolerations = <<[Toleration EXCEPT !.key = ""]>>],
    [Plain EXCEPT !.devicePlugin = [Plugin EXCEPT !.hostPaths = <<"/etc">>]],
    [Plain EXCEPT !.moduleLoader.containerImage = None],
    [Plain EXCEPT !.moduleLoader.kernelMappings[1].containerImage = [Image("x", "kernel") EXCEPT !.tagged = FALSE]],
    [Plain EXCEPT !.moduleLoader.kernelMappings[1].regexp = InvalidRegexp],
    [Plain EXCEPT !.moduleLoader.inTreeModuleToRemove = "t",
                  !.moduleLoader.kernelMappings[1].inTreeModulesToRemove = {"u"}],
    [Plain EXCEPT !.moduleLoader.sign = [Sign EXCEPT !.filesToSign = << >>]],
    [Plain EXCEPT !.moduleLoader.sign = [Sign EXCEPT !.filesToSign[1].underDirName = FALSE]],
    [Plain EXCEPT !.moduleLoader.modprobe.moduleName = None, !.moduleLoader.modprobe.modulesLoadingOrder = None,
                  !.moduleLoader.modprobe.rawArgs = [set |-> TRUE, load |-> TRUE, unload |-> FALSE]],
    [Plain EXCEPT !.moduleLoader.modprobe.modulesLoadingOrder = <<"dep", "other">>]}

\* A Module without a loader stops every PreflightValidation.
Loaderless == [Plain EXCEPT !.moduleLoader = None]

\* Templates that lack their closing brace: an image that k2 uses, a file.
Unclosed == {
    [Mapped EXCEPT !.moduleLoader.containerImage = Image("x", "malformed")],
    [Plain EXCEPT !.moduleLoader.sign = [Sign EXCEPT !.filesToSign[1].template = "malformed"]]}

AllCandidates == {Plain, Mapped, OnlyK1, Loaderless} \cup Unclosed \cup Refused
=============================================================================
