------------------------- MODULE MCModuleScheduling -------------------------
(* ModuleScheduling with the values its configurations share.              *)
EXTENDS ModuleScheduling

CONSTANTS a, b, ns, k1, k2

MCBooted == [n \in Nodes |-> k1]

MCNamespaceOf == [m \in Modules |-> ns]

(* The second kernel has no mapping in the first revision of a Module, and *)
(* one that cannot be evaluated in the second.                             *)
MCMapping == [i \in (1..MaxRev) \X Kernels |->
                 IF i[2] = k1 THEN "image" ELSE IF i[1] = 1 THEN "none" ELSE "error"]

=============================================================================
