SPECIFICATION Spec
CONSTANTS
  ByteBits = 7
  ByteMod = 128
  SlackBytes = 8
  PcBound = 8
  Exceptions = {1}
  Instructions <- ExampleInstructions
  InitialCores <- ExampleCores
PROPERTIES
  ResetFetchesFromZero
CHECK_DEADLOCK FALSE
