SPECIFICATION FairSpec
CONSTANTS
  p1 = p1  p2 = p2  p3 = p3  p4 = p4
  s1 = s1  s2 = s2  d1 = d1  d2 = d2
  clk = clk
  NULL = NULL
  Procs = {p1, p2, p3}
  UserSems = {s1, s2}
  Devs = {d1}
  Clock = clk
  Uses = {"createFull", "loneYield", "killIO"}
  Kinds <- TwoKinds
CHECK_DEADLOCK FALSE
INVARIANTS
  TypeOK
  OnePlace
  CountsExact
  Resting
  WaitersMatchValue
PROPERTIES
  ClockWakes
  DeviceAnswers
