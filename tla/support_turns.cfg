SPECIFICATION FairTurns
CONSTANTS
  UPROCMAX = 2
  Strings <- ThreeStrings
  Lens <- AllLens
  MAXLEN = 2
  Typed = {"k"}
  MaxLine = 2
  Failing = {"printer", "term_out", "term_in"}
  NULL = NULL
  Nobody = Nobody
  TIMESLICE = 2
CHECK_DEADLOCK FALSE
INVARIANTS
  TypeOK
  WritesWhatWasAsked
  ReadsTheLine
  LockedInside
  AnswerPending
PROPERTIES
  CallsReturn
