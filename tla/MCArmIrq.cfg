SPECIFICATION FairSpec
CONSTANTS
  ByteBits = 4
  ByteMod = 16
  SlackBytes = 8
  PcBound = 8
  TargetBig = 0
  HostBig = 0
  MAX_PACKET_SIZE = 1024
  NoReply = NoReply
  NoPacket = NoPacket
  Instructions <- MCInstructions
  Packets <- SomePackets
  Irqs = {1}
  Garbage <- SomeGarbage
  Size = 12
  MAX_ERROR_SIZE = 2
  MaxTokens = 2
  MaxFds = 1
PROPERTIES
  InterruptsAreReceived
CHECK_DEADLOCK FALSE
