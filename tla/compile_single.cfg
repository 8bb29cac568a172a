SPECIFICATION FairSpec
CONSTANTS
  m1 = m1
  m2 = m2
  m3 = m3
  Null = Null
  Junk = Junk
  Thread = {t1}
  Method = {m1, m2, m3}
  Context = {c1, c2, c3, c4}
  Callees <- KnotCallees
  Inlinable = {m2}
  MayFail = {m2}
  Threshold <- Lazily
  Loaded = {m1, m2}
  ClassMethods <- TwoMethodClass
  InliningDepth = 2
  MaxDepth = 7
  MaxCalls = 3
INVARIANTS TypeOK NoSelfCompilation OwnCode DirectCallSafe ThrowTableComplete NoEarlyRelease LockDiscipline
PROPERTY Terminates
