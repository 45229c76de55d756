\* Two words of two bits: operations on the same bit, on another bit of the same
\* word, and on another word.
SPECIFICATION BitsSpec
CONSTANTS
  BITS_PER_LONG = 2
  NWORDS = 2
INVARIANTS
  OperationsAtomic
