SPECIFICATION Spec
CONSTANTS
  t1 = t1
  t2 = t2
  m1 = m1
  m2 = m2
  m3 = m3
  m4 = m4
  NoMsg = NoMsg
  NumSlots = 3
  Threads <- MCThreads
  Msgs <- MCMsgs
SYMMETRY Symmetry
INVARIANTS
  NoSlotRace
  DrainComplete
PROPERTY
  ImplementsPacketSet
