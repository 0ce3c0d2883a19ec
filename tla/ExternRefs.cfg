SPECIFICATION Spec
CONSTANTS
  Nil = Nil
  Objects = {o1, o2, o3}
  Vars = {v1, v2}
  Cells = {c1, c2}
  UsesReleased = FALSE
  ReleasesEarly = FALSE
  ReleasesNull = FALSE
INVARIANTS TypeOK IndicesRecycledOnce CopiesResolve GetRefReturnsIt ValidUnlessNull
CHECK_DEADLOCK FALSE
