SPECIFICATION Spec
CONSTANTS
  None = None
  Vars = {v1, v2, v3, v4}
  Objs = {o1, o2, o3, o4}
  Programs <- MCPrograms
SYMMETRY Symmetry
INVARIANTS SoleOwner NothingDangles ExecutionsKeepTheirObjects
