SPECIFICATION Spec
CONSTANTS
  UPROCMAX = 1
  Strings <- ThreeStrings
  Lens <- AllLens
  MAXLEN = 3
  Typed = {"k"}
  MaxLine = 3
  Failing = {"printer"}
  NULL = NULL
CHECK_DEADLOCK FALSE
INVARIANT
  ErrorReported
