CONSTANTS
  a1 = a1  a2 = a2
  Types = {a1, a2}
  Depth = 3
  MaxImpls = 6
SPECIFICATION Spec
INVARIANT RemovedIsEmpty
SYMMETRY MCSymmetry
