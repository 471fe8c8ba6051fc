SPECIFICATION SpecT
CONSTANTS
  Callables = {c1, c2}
  SwapTmp = swap_tmp
  AssignTmp = assign_tmp
  Objects = {c1, c2, swap_tmp, assign_tmp}
  Functors = {str, ref_str, array}
  ByRef = {ref_str}
  Values = {v0, v1}
  NullValue = v0
  Blocks = {b1, b2, b3, b4, b5}
  Shape <- MCShape
  Actual <- MCActual
  EmptyVtable = EmptyVtable
  IsNoexcept = FALSE
  EmptyVtables = {EmptyVtable}
  AllOnes = AllOnes
  Junk = Junk
  Void = Void
  nullptr = nullptr
  str = str
  ref_str = ref_str
  array = array
  DebugBuild = TRUE
  Copyable = "supported"
  Moveable = "supported"
  Destructor = "nofail"
  EmptyHandler = "throw_on_empty"
CHECK_DEADLOCK FALSE
INVARIANTS
  RttiTypeOK
  HeldPointerFollows
PROPERTIES
  ContainsFollowsTarget
