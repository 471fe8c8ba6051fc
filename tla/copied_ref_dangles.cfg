SPECIFICATION Spec
CONSTANTS
  Callables = {big}
  Trivial = {}
  Throwing = {}
  Refs = {r1, r2}
  Tunnels = {}
  Temporary = Temporary
  None = None
  Values = {v0}
  Exceptions = {e1, e2}
  ne = TRUE
  DebugBuild = TRUE
  Sources = {"nonconst"}
  Lifetimes = "documented"
  MaxDepth = 2
CHECK_DEADLOCK FALSE
INVARIANTS
  CallableAliveSuffices
