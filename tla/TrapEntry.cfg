\* Up to three traps inside one another, two places in the interrupted code; a
\* cause with an empty case, a page fault, the timer, an interrupt with a line
\* of its own and one without a case.
SPECIFICATION Spec
CONSTANTS
  MaxDepth = 3
  StackTop = 120
  SIGN = 64
  HALF = 256
  Exceptions = {2, 13}
  Irqs = {5, 9, 13}
  Code = {40, 41}
INVARIANTS
  ContextRestored
  FramesIntact
  DumpShowsContext
