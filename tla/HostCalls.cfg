SPECIFICATION CallsSpec
CONSTANTS
  W32 = 4
  W64 = 8
  NoValue = NoValue
  Vals <- MCVals
  FuncTypes <- MCFuncTypes
  MaxReturns = 2
INVARIANTS HostSeesArguments CallerSeesReturns PanicsJustified GlobalHoldsLast
