\* Every memory of five bytes with three values; every call in it.
SPECIFICATION Spec
CONSTANTS
  MEMSIZE = 5
  Bytes = {0, 1, 2}
INVARIANTS
  CopiesRight
  ComparesRight
  FindsRight
CHECK_DEADLOCK FALSE
