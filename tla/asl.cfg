SPECIFICATION Spec
CONSTANTS
  p1 = p1  p2 = p2  p3 = p3
  k1 = k1  k2 = k2  k3 = k3  k4 = k4
  NULL = NULL
  MAXPROC = 3
  Procs = {p1, p2, p3}
  Keys = {k1, k2, k3, k4}
SYMMETRY Symmetry
INVARIANTS
  TypeOK
  DescriptorsKept
  QueuesMatchSemAdd
  NeverRefuses
PROPERTIES
  KeepsPromise
