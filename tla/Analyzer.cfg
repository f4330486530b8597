SPECIFICATION Spec
CONSTANTS
  Threads = {t1, t2}
  Users = {u1, u2}
  Fields = {f, g}
  a = a
  the = the
  Words = {a, the}
  StopWords = {the}
  Texts <- MCTexts
  Illegal = Illegal
  Dead = Dead
INVARIANTS TypeOK TokensAreAsked LeftUsable
PROPERTIES ImplementsTokenStreams
SYMMETRY Symmetry
VIEW View
CONSTRAINT Bound
CHECK_DEADLOCK FALSE
