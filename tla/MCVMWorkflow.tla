--------------------------- MODULE MCVMWorkflow ---------------------------
(* VMWorkflow for TLC: two modules that export different functions.        *)
EXTENDS VMWorkflow, TLC

CONSTANTS m1, m2, f1, f2

MCMods == {m1, m2}
MCFuncs == {f1, f2}

(* f1 is exported by m1 only; f2 by both, with different results. *)
MCArity == m1 :> (f1 :> 1 @@ f2 :> 0) @@ m2 :> (f1 :> Nil @@ f2 :> 2)

(* The goroutines are interchangeable, and so are the registered names. *)
Symmetry == Permutations(Goroutines) \cup Permutations(Names)
===========================================================================
