SPECIFICATION Spec
CONSTANTS
  a1 = a1  a2 = a2
  n1 = n1  n2 = n2
  None = None
  Asids = {a1, a2}
  PageNos = {n1, n2}
  Touched <- AllTouched
  SP_SIZE = 3
  TlbSize = 1
  Uses = {"terminate"}
CHECK_DEADLOCK FALSE
INVARIANTS
  NoBitNoFrame
