\* Two lists, so that entries move between them; up to three entries in one.
SPECIFICATION Spec
CONSTANTS
  Heads = {g, h}
  Nodes = {x, y, z}
INVARIANTS
  Mirror
  EmptyMeansInit
PROPERTY ImplementsLists
