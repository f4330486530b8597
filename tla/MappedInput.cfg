CONSTANTS
  Threads = {t1, t2}
  Inputs = {i1, i2, i3}
  Addrs = {a1, a2}
  Cells = {c1, c2}
  MaxMaps = 3
  NoInput = NoInput
  NoCell = NoCell
SYMMETRY Symmetry
SPECIFICATION Spec
INVARIANTS ReadsFindTheirFile CallsHitTheirOwn NothingLeaks
