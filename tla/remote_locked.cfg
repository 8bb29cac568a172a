SPECIFICATION Spec
CONSTANTS
  t1 = t1
  t2 = t2
  p1 = p1
  p2 = p2
  o1 = o1
  Null = Null
  Thread = {t1, t2}
  Proxy = {p1, p2}
  Obj = {o1}
  Conn = {c1, c2}
  Worker = {w1, w2}
  Val = {a, b}
  LEN = 2
  Uses <- OwnUses
  Target <- SameTarget
  Locks <- OwnLocks
  Index = {0, 1, 2}
  Block <- InRange
  Programs <- SafePrograms
INVARIANTS InStep MonitorExclusion
PROPERTY SingleVMSpec
SYMMETRY Symmetry
CHECK_DEADLOCK FALSE
