SPECIFICATION FairSpec
CONSTANTS
  m1 = m1
  m2 = m2
  m3 = m3
  Null = Null
  Junk = Junk
  Thread = {t1, t2}
  Method = {m1, m2}
  Context = {c1, c2, c3, c4}
  Callees <- MutualCallees
  Inlinable = {m1}
  MayFail = {}
  Threshold <- Eagerly
  Loaded = {m1, m2}
  ClassMethods <- TwoMethodClass
  InliningDepth = 1
  MaxDepth = 6
  MaxCalls = 1
INVARIANTS OneContextPerMethod BodyExclusion NoEarlyRelease
PROPERTY Terminates
