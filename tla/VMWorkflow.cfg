SPECIFICATION Spec
CONSTANTS
  Nil = Nil
  m1 = m1
  m2 = m2
  f1 = f1
  f2 = f2
  Goroutines = {g1, g2}
  Mods <- MCMods
  Names = {n1, n2}
  Funcs <- MCFuncs
  Arity <- MCArity
SYMMETRY Symmetry
INVARIANTS RunExecutesItsModule ResultsComplete NilTypeIsError ListsAreFull
