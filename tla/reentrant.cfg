SPECIFICATION SpecR
CONSTANTS
  Callables = {c1, c2}
  SwapTmp = swap_tmp
  AssignTmp = t1
  Tmps = {t1, t2, t3}
  MaxDepth = 2
  Objects = {c1, c2, swap_tmp, t1, t2, t3}
  Functors = {fptr, str, array}
  Values = {v0}
  NullValue = v0
  Blocks = {b1, b2, b3, b4, b5}
  Shape <- MCShape
  EmptyVtable = EmptyVtable
  IsNoexcept = FALSE
  EmptyVtables = {EmptyVtable}
  AllOnes = AllOnes
  Junk = Junk
  fptr = fptr
  str = str
  array = array
  DebugBuild = TRUE
  Copyable = "supported"
  Moveable = "nofail"
  Destructor = "nofail"
  EmptyHandler = "nop_on_empty"
CHECK_DEADLOCK FALSE
INVARIANTS
  StackTypeOK
  CallsRunInTheirTarget
  DyingTargetsUnreachable
  NothingForgotten
  NoFaults
