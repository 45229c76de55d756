\* Formats of up to five characters; an int of four bits, a long of six.
SPECIFICATION FmtSpec
CONSTANTS
  INT = 16
  LONG = 64
  Words = {0, 3, 8, 15, 32, 39}
  Strs <- MCStrs
  Sizes = {0, 1, 4}
  Escapes = {"-", "0", "1", "*", ".", "#", "l", "c", "e", "s", "d", "u", "o", "p", "x", "%", "z"}
  MaxFmt = 5
INVARIANTS
  BufferHoldsPrefix
  LiteralEscapes
  NumbersReadBack
  
CHECK_DEADLOCK FALSE
