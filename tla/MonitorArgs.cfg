\* No "b": the stack is never used up, only argv can be.
SPECIFICATION Spec
CONSTANTS
  BUFSIZE = 6
  MAXARGS = 2
  Letters = {"h"}
  StackDepth = 2
INVARIANT ArgsWithinMax
CHECK_DEADLOCK FALSE
