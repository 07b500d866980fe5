SPECIFICATION Spec
CONSTANTS
  a = a
  b = b
  c = c
  h1 = h1
  h2 = h2
  Unknown = Unknown
  VMs <- TwoVMs
  HostOf <- TwoHosts
  Latency <- Latencies
  ForceMinLatency <- NotForced
  Grain = 2
  Infinity = 100
  Slack <- NoSlack
  MaxTime = 5
  MaxSends = 1
CHECK_DEADLOCK FALSE
INVARIANTS
  SentInTheFuture
