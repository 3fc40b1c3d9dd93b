SPECIFICATION Spec
CONSTANTS
  ByteBits = 7
  ByteMod = 128
  SlackBytes = 8
  PcBound = 8
  Exceptions = {1, 6}
  Instructions <- MCInstructions
  InitialCores <- MCInitialCores
INVARIANTS
  TypeOK
  OneOutcome
PROPERTIES
  NextFetch
  
  LoadsWhatWasStored
  AluAsCommented
CHECK_DEADLOCK FALSE
