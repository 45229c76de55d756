SPECIFICATION FindSpec
CONSTANTS
  NPAGE = 5
  WORD = 16
  NULLPAGE = 9
  Void = Void
INVARIANTS
  WalkInv
  AnswersFirstFit
CHECK_DEADLOCK FALSE
