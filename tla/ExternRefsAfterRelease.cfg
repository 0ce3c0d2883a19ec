SPECIFICATION Spec
CONSTANTS
  Nil = Nil
  Objects = {o1, o2}
  Vars = {v1, v2}
  Cells = {c1, c2}
  UsesReleased = TRUE
  ReleasesEarly = FALSE
  ReleasesNull = FALSE
CHECK_DEADLOCK FALSE
PROPERTY ReleasedIsNotPassed
