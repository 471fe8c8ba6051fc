SPECIFICATION FairSpec
CONSTANTS
  Callables = {big, thrower}
  Trivial = {}
  Throwing = {thrower}
  Refs = {r1, r2}
  Tunnels = {t1}
  Temporary = Temporary
  None = None
  Values = {v0}
  Exceptions = {e1, e2}
  ne = FALSE
  DebugBuild = FALSE
  Sources = {"const", "nonconst"}
  Lifetimes = "actual"
  MaxDepth = 2
CHECK_DEADLOCK FALSE
INVARIANTS
  CallsReachLiveObjects
PROPERTIES
  FailureReported
  CallsArrive
