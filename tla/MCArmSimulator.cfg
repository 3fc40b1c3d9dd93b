SPECIFICATION Spec
CONSTANTS
  ByteBits = 4
  ByteMod = 16
  SlackBytes = 8
  PcBound = 8
  TargetBig = 1
  HostBig = 0
  MAX_PACKET_SIZE = 1024
  NoReply = NoReply
  NoPacket = NoPacket
  Instructions <- MCInstructions
  Packets <- AllPackets
  Irqs = {1, 6}
  Garbage <- MCGarbage
  Size = 12
  MAX_ERROR_SIZE = 2
  MaxTokens = 2
  MaxFds = 1
INVARIANTS
  TypeOK
  MutualExclusion
  HandlersUseLiveCore
  UseAfterFreeOnlyAtExit
  ErrorBufferBound
  OneReplyPerPacket
  RegisterRoundTrip
  RegisterTextIsMemoryText
  MemoryRoundTrip
PROPERTIES
  BreakpointNotExecuted
CHECK_DEADLOCK FALSE
