SPECIFICATION Spec
CONSTANTS
  Classes = {A, B, C}
  A = A
  B = B
  C = C
  a1 = a1
  a2 = a2
  b1 = b1
  c1 = c1
  emptyA = emptyA
  emptyB = emptyB
  emptyC = emptyC
  strA = strA
  strB = strB
  strC = strC
  arrayB = arrayB
  arrayC = arrayC
  Callables = {a1, a2, b1, c1}
  Objects = {a1, a2, b1, c1}
  Functors = {strA, strC, arrayC}
  Values = {v0}
  Blocks = {k1, k2, k3}
  SboSizes = {4, 6}
  SboAlignments = {16}
  DebugBuild = TRUE
  EmptyVtables = {emptyA, emptyB, emptyC}
  AllOnes = AllOnes
  Junk = Junk
  MaxAlive = 3
  Shape <- MCShape
  ClassOf <- MCClassOf
  StoredBy <- MCStoredBy
  EmptyOf <- MCEmptyOf
  Programs <- CheckedPrograms
SYMMETRY Alike
CHECK_DEADLOCK FALSE
INVARIANTS
  TypeOK
  SlotsAgree
  OwnedOnce
  NoFaults
  EmptySourceGivesEmpty
PROPERTIES
  CrossAssignmentCopies
