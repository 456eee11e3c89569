--------------------------- MODULE MCModuleStates ---------------------------
(* The third depends on the first two and comes with them, the fourth       *)
(* depends on the first and is at odds with the third.                      *)
EXTENDS ModuleStates

MCDeps == [m \in Modules |-> CASE m = 3 -> {1, 2} [] m = 4 -> {1} [] OTHER -> {}]
MCExcludes == [m \in Modules |-> CASE m = 3 -> {4} \cap Modules [] m = 4 -> {3} [] OTHER -> {}]
=============================================================================
