\* Every pair of databases of three pages, and every call.
SPECIFICATION Spec
CONSTANTS
  NPAGE = 3
  WORD = 7
  NULLPAGE = 4
  Void = Void
  Counts = {0, 6}
PROPERTIES
  WeakStepConsistency
  LocalRespect
  OutputConsistency
CHECK_DEADLOCK FALSE
