SPECIFICATION Spec
CONSTANTS
  Dirs = {d1}
  Plain = {a, b}
  TempWidth = 2
  MaxFiles = 3
  MaxSync = 1
INVARIANTS
  NoForgottenDelete
  RetriesHitOwedFiles
PROPERTIES
  DeletedStaysUnread
  KeepsDeletePromise
CHECK_DEADLOCK FALSE
