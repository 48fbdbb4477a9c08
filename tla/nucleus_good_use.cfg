SPECIFICATION Spec
CONSTANTS
  p1 = p1  p2 = p2  p3 = p3  p4 = p4
  s1 = s1  s2 = s2  d1 = d1  d2 = d2
  clk = clk
  NULL = NULL
  Procs = {p1, p2, p3, p4}
  UserSems = {s1}
  Devs = {d1}
  Clock = clk
  Uses = {}
  Kinds <- TwoKinds
SYMMETRY Symmetry
CHECK_DEADLOCK FALSE
INVARIANTS
  NoneLost
  NeverPanics
  WaitsOnlyWhenNoneReady
  OneTree
  WakeUpsPending
PROPERTIES
  StatusToItsWaiter
  TickWakesAll
  NoOvertaking
  KeepsPromise
