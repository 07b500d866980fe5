SPECIFICATION Spec
CONSTANTS
  NumBuffers = 2
  BufferSize = 2
  NsPerSec = 2
  SocketRoom = 1
  Argvs <- MCArgvs
  PacketLens <- MCPacketLens
  Lens <- MCLens
  Times <- MCTimes
  OtherMsgs <- MCOtherMsgs
  Offsets <- MCOffsets
  MaxMsgs = 2
  MaxSends = 1
INVARIANT AcceptedIsCarried
CHECK_DEADLOCK FALSE
