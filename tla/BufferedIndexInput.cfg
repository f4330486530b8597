CONSTANTS
  File = File
  s1 = s1
  Slices = {s1}
  FileLength = 6
  Offset <- MCOffset
  Extent <- MCExtent
  BUFFER_SIZE = 3
  MIN_BUFFER_SIZE = 3
  Sizes = {4}
  Widths = {1, 3, 4}
  MaxRead = 4
  Word = 256
  NoByte = NoByte
SPECIFICATION Spec
INVARIANTS TypeOK WindowIsFile DeviceFollows ReadsAreRight EndIsExact ReadsMoveOn
PROPERTY OverrunIsKnown
VIEW MCView
CHECK_DEADLOCK FALSE
