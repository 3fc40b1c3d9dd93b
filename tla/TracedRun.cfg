SPECIFICATION Spec
CONSTANTS
  StackSize = 3
  AddressMod = 64
  FirstAddress = 56
  Pcs = {0, 60}
  NoSite = NoSite
  NoFile = NoFile
  MAX_FILES_NUMBER = 2
  Files = {1, 2, 3}
  GdbFile = 2
  Registers = 16
  NamedModes = 2
  MaxOptions = 3
  MaxJobs = 2
INVARIANTS
  TypeOK
  TraceRestored
  TraceIsExecution
  SequentialMarks
  TracedToAFile
  SearchIsMembership
  CacheIsTrue
CHECK_DEADLOCK FALSE
