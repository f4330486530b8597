SPECIFICATION FairSpec
CONSTANTS
  Dirs = {d1, d2}
  Plain = {}
  TempWidth = 2
  MaxFiles = 2
  MaxSync = 1
INVARIANTS
  SingleWriter
PROPERTIES
  CallsReturn
VIEW SharedView
