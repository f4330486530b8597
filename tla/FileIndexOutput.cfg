SPECIFICATION Spec
CONSTANTS
  BUF_SIZE = 3
  MaxChunk = 4
  MaxBytes = 8
INVARIANTS
  InOrder
  ClosedIsComplete
  OverrunIsOneByte
  CrashLeavesPrefix
PROPERTIES
  ImplementsLog
CHECK_DEADLOCK FALSE
