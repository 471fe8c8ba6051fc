SPECIFICATION ExportSpec
CONSTANTS
  Callables = {word, big, thrower}
  Trivial = {word}
  Throwing = {thrower}
  Refs = {r1, r2}
  Tunnels = {t1}
  Temporary = Temporary
  None = None
  Values = {v0}
  Exceptions = {e1, e2}
  ne = TRUE
  DebugBuild = TRUE
  Sources = {"const"}
  Lifetimes = "documented"
  MaxDepth = 2
CHECK_DEADLOCK FALSE
INVARIANTS
  CallsReachLiveObjects
