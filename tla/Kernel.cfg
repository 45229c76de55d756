\* Six pages of which five or six are free, requests that fit, that fit only
\* once, and that are refused. The grading build ends in the monitor.
SPECIFICATION Spec
CONSTANTS
  NPAGE = 6
  WORD = 14
  NULLPAGE = 9
  Void = Void
  TICK_NUM = 2
  TICKWORD = 3
  CallSizes = {0, 2, 3}
  MinFree = 5
  Builds = {TRUE, FALSE}
INVARIANTS
  CallsUninterrupted
  IrqRestored
  HeldBlocks
  PanicMessage
PROPERTIES
  TicksOnlyGrow
  ClockNeverStops
  GradeEnds
  PanicIsFinal
