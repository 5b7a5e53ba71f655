---------------------------- MODULE MCNodeModules ----------------------------
EXTENDS NodeModules
CONSTANTS k1, k2
MCNameOf == [m \in Modules |-> "name"]
MCKernelAt == [b \in Boots |-> IF b = 0 THEN k1 ELSE k2]
MCSameKernel == [b \in Boots |-> k1]
==============================================================================
