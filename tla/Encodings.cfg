SPECIFICATION EncodingsSpec
CONSTANTS
  Inputs <- MCInputs
  Edges16 = {0, 7, 8, 15}
  Edges32 = {0, 7, 23, 29, 30, 31}
  Edges64 = {0, 7, 30, 52, 62, 63}
  Capacities = {0, 8}
  MaxEntries = 2
  Word = 65536
  Junk = Junk
INVARIANTS ReadsGiveBack OrderIsKept
CHECK_DEADLOCK FALSE
