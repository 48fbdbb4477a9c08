SPECIFICATION Spec
CONSTANTS
  p1 = p1  p2 = p2  p3 = p3  p4 = p4
  s1 = s1  s2 = s2
  NULL = NULL
  Procs = {p1, p2, p3, p4}
  Sems = {s1}
SYMMETRY Symmetry
CHECK_DEADLOCK FALSE
INVARIANTS
  TypeOK
  Threaded
  OneList
  TreeMatchesLists
PROPERTIES
  KeepsPromise
