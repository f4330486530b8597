CONSTANTS
  t1 = t1  t2 = t2
  a1 = a1  a2 = a2
  v1 = v1  v2 = v2
  Threads = {t1, t2}
  Addrs = {a1, a2}
  Values = {v1, v2}
  NoValue = NoValue
SPECIFICATION Spec
INVARIANT ThreadsInvisible
SYMMETRY MCSymmetry
