SPECIFICATION Spec
CONSTANTS
  Backends <- MCBackends
  Lengths <- MCLengths
  FreqNum = 3
  FreqDen = 2
  BootTimes <- MCBootTimes
  MaxClock = 7
  MaxSends = 3
CHECK_DEADLOCK FALSE
INVARIANTS
  StampsInSlice
  HeldBackInOrder
  AbortOnlyWhenLate
  TimerReferenced
PROPERTIES
  ImplementsVmContract
