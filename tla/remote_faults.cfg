SPECIFICATION FairSpec
CONSTANTS
  t1 = t1
  t2 = t2
  p1 = p1
  p2 = p2
  o1 = o1
  Null = Null
  Thread = {t1}
  Proxy = {p1}
  Obj = {o1}
  Conn = {c1}
  Worker = {w1}
  Val = {a, b}
  LEN = 2
  Uses <- BothUses
  Target <- SameTarget
  Locks <- NoLocks
  Index = {0, 2}
  Block <- InRange
  Programs <- FaultyPrograms
INVARIANTS ReplyMatches Landed
PROPERTIES FlagRestored CallReturns
CHECK_DEADLOCK FALSE
