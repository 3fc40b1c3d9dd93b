SPECIFICATION FairSession
CONSTANTS
  ByteBits = 4
  ByteMod = 16
  SlackBytes = 8
  PcBound = 8
  TargetBig = 0
  HostBig = 0
  MAX_PACKET_SIZE = 1024
  NoReply = NoReply
  NoPacket = NoPacket
  Instructions <- MCInstructions
  Packets <- MCPackets
  Irqs = {1}
  Garbage <- MCGarbage
  Size = 4
  MAX_ERROR_SIZE = 2
  MaxTokens = 12
  MaxFds = 1
  MaxCommands = 2
  MaxFaults = 1
  MaxStrays = 1
INVARIANTS
  ExtraExecutions
  ReplyLag
PROPERTIES
  ServesOnce
  CommandsAnswered
CHECK_DEADLOCK FALSE
