SPECIFICATION Spec
CONSTANTS
  Callables = {c1, c2}
  SwapTmp = swap_tmp
  AssignTmp = assign_tmp
  Objects = {c1, c2, swap_tmp, assign_tmp}
  Functors = {fptr, memfn, bigpod, str, array}
  Values = {v0, v1}
  NullValue = v0
  Blocks = {b1, b2, b3, b4, b5, b6}
  Shape <- MCShape
  EmptyVtable = EmptyVtable
  IsNoexcept = FALSE
  EmptyVtables = {EmptyVtable}
  AllOnes = AllOnes
  Junk = Junk
  fptr = fptr
  memfn = memfn
  bigpod = bigpod
  str = str
  array = array
  tsmall = tsmall
  tone = tone
  tcopy = tcopy
  tlarge = tlarge
  DebugBuild = TRUE
  Copyable = "supported"
  Moveable = "nofail"
  Destructor = "nofail"
  EmptyHandler = "assert_on_empty"
CHECK_DEADLOCK FALSE
INVARIANTS
  TypeOK
  NothingLeaked
  TargetsIntact
  AssertionsHold
  UnusedWordsClear
  Inv
PROPERTIES
  ImplementsContract
