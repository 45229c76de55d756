\* Callers that pass any words and free anything, three pages.
CONSTANTS
  NPAGE = 3
  WORD = 7
  NULLPAGE = 5
  Void = Void
SPECIFICATION FairSpec
INVARIANT TypeOK
INVARIANT NoReservedAllocated
INVARIANT NrFreeIsFree
INVARIANT NoUnderflow
INVARIANT LoopInv
PROPERTY CallsReturn
PROPERTY ImplementsPagedb
