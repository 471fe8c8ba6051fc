SPECIFICATION Spec
CONSTANTS
  Callables = {word, big, thrower}
  Trivial = {word}
  Throwing = {thrower}
  Refs = {r1, r2}
  Tunnels = {t1}
  Temporary = Temporary
  None = None
  Values = {v0, v1}
  Exceptions = {e1}
  ne = TRUE
  DebugBuild = TRUE
  Sources = {"const"}
  Lifetimes = "documented"
  MaxDepth = 2
CHECK_DEADLOCK FALSE
INVARIANTS
  TypeOK
  CallsReachLiveObjects
  CallsReachTheirCallable
  NoExceptionEscapes
PROPERTIES
  FailureReported
  CopiesAreIsolated
