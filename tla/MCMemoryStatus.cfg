SPECIFICATION Spec
CONSTANTS
  ByteBits = 1
  ByteMod = 2
  SlackBytes = 4
  Size = 2
INVARIANTS
  StatusIsZeroOrMinusOne
CHECK_DEADLOCK FALSE
