SPECIFICATION Spec
CONSTANTS
  r1 = r1
  w1 = w1
  w2 = w2
  None = None
  Torn = Torn
  Readers <- MCReaders
  Writers <- MCWriters
  Deltas <- MCDeltas
  MaxWrites = 3
INVARIANTS
  ReadFnGetsAWrittenValue
