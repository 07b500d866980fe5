SPECIFICATION FairSpec
CONSTANTS
  t1 = t1
  Threads <- MCThreads
  NumBuffers = 2
  Lengths <- MCLengths
  MaxClock = 3
  MaxSends = 1
  MaxPackets = 2
CHECK_DEADLOCK FALSE
INVARIANTS
  TypeOK
  TimerKeepsDeadline
  InputInOrder
  NoLostWakeup
  
PROPERTIES
  ImplementsVmContract
  NoPanicWhileRunning
  
  AbortOnlyAfterLateness
  DeadlineIsReached
  StopReturns
