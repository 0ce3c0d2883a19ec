SPECIFICATION Spec
CONSTANTS
  Nil = Nil
  Goroutines = {g1, g2}
  Fns = {fn1, fn2}
  Handles = {h1, h2}
  Modules = {m1}
  CFuncs = {f1, f2, f3}
  MaxLoad = 4
  AddsNotOwned = {"consumed", "borrowed"}
SYMMETRY Symmetry
INVARIANT KeysRecycledOnce
