SPECIFICATION FairTurns
CONSTANTS
  a1 = a1  a2 = a2  a3 = a3
  n1 = n1
  None = None
  Nobody = Nobody
  TIMESLICE = 2
  Asids = {a1, a2, a3}
  PageNos = {n1}
  Touched <- AllTouched
  SP_SIZE = 1
  TlbSize = 1
  Uses = {"terminate", "trap", "readError", "writeError"}
VIEW Control
CHECK_DEADLOCK FALSE
PROPERTIES
  FaultServed
