SPECIFICATION Spec
CONSTANTS
  ByteBits = 1
  ByteMod = 2
  SlackBytes = 4
  Size = 2
INVARIANTS
  TypeOK
  EndianLayout
  ReadYourWrites
  EndianMirror
  AcceptedReadsAreMapped
CHECK_DEADLOCK FALSE
