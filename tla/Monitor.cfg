\* Lines of up to five characters over the buffers earlier lines left; up to
\* three words fit in the line and two in argv; one panic inside another fits
\* on the stack.
SPECIFICATION Spec
CONSTANTS
  BUFSIZE = 6
  MAXARGS = 2
  Letters = {"b", "h"}
  StackDepth = 2
INVARIANTS
  RunsWhatWasTyped
  OneMessage
PROPERTY PromptComesBack
CHECK_DEADLOCK FALSE
