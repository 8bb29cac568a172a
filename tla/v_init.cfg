SPECIFICATION Spec
CONSTANTS
  Threads = {"t1", "t2"}
  Methods = {"work", "initD"}
  Program <- SharedProgram
  Handlers <- NoHandlers
  Length = 4
  Start <- SameStart
  Classes = {"A", "B", "D", "E", "F", "G"}
  Ready = {"A", "B"}
  Clinit <- MixedClinit
  Itable <- NoItable
  Impl <- NoImpl
  Bits = 2
  LibFrames = {1}
  MaxInsns = 14
  MaxFrames = 6
INVARIANT InitBeforeUse
CHECK_DEADLOCK FALSE
