SPECIFICATION FairSpec
CONSTANTS
  a = a
  b = b
  c = c
  h1 = h1
  h2 = h2
  Unknown = Unknown
  VMs <- TwoVMs
  HostOf <- TwoHosts
  Latency <- Latencies
  ForceMinLatency <- NotForced
  Grain = 2
  Infinity = 100
  Slack <- Congestion
  MaxTime = 4
  MaxSends = 2
CHECK_DEADLOCK FALSE
INVARIANTS
  TypeOK
  DeliveredOnArrival
  CausalityAssertionHolds
  GoToIsABarrier
  PacketsConserved
PROPERTIES
  DeadlinesNeverDecrease
  
