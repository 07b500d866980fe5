SPECIFICATION FairSpec
CONSTANTS
  NumBuffers = 2
  BufferSize = 2
  NsPerSec = 2
  SocketRoom = 1
  Argvs <- MCArgvs
  PacketLens <- MCPacketLens
  Lens <- MCLens
  Times <- MCTimes
  OtherMsgs <- MCOtherMsgs
  Offsets <- MCOffsets
  MaxMsgs = 4
  MaxSends = 1
INVARIANTS
  TypeOK
  PacketsIntact
  InSync
  BuffersConserved
  TimesExact
  HandlerKeepsContext
  
PROPERTY ReceiveEnds
CHECK_DEADLOCK FALSE
