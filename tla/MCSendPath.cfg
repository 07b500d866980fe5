SPECIFICATION Spec
CONSTANTS
  t1 = t1
  t2 = t2
  NumBuffers = 3
  Threads <- MCThreads
SYMMETRY Symmetry
INVARIANTS
  BufferHasOneOwner
  SlotAlwaysAvailable
PROPERTY
  FailsOnlyWhenContended
