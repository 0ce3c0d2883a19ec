-------------------------- MODULE MCHostFunctions --------------------------
(* HostFunctions for TLC: the program's goroutines, variables, functions   *)
(* and instances are interchangeable.                                      *)
EXTENDS HostFunctions, TLC

Symmetry == Permutations(Goroutines) \cup Permutations(Handles)
              \cup Permutations(Fns) \cup Permutations(CFuncs)
===========================================================================
