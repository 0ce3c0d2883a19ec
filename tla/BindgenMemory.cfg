SPECIFICATION Spec
CONSTANTS
  Byte = 4
  Active = active
  Registered = {reg, bare}
  HasMemory = {active, reg}
  HeapAddrs = {16, 40, 200}
  MaxLeft = 1
  MaxParams = 2
  Contents = {"a", "b", "r", "s"}
  Params <- MCParams
  Results <- MCResults
INVARIANTS TypeOK ArgumentsArrive ResultArrives NothingKept
