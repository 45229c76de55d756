\* Eight pages of four bytes, tables of four entries; the image may end anywhere
\* above its data section, in the pages or past them.
SPECIFICATION Spec
CONSTANTS
  NPAGE = 8
  WORD = 40
  NULLPAGE = 30
  Void = Void
  PGSIZE = 4
  SV39_NENTRY = 4
  NBASE = 36
  PHYSICAL_MEMORY_OFFSET = 64
  BASE_ADDRESS = 208
  ENTRY_VBASE = 192
  ENTRY_PBASE = 128
INVARIANTS
  BootedLayout
  BootOutcome
  MappingAgrees
CHECK_DEADLOCK FALSE
