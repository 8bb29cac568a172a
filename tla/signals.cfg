SPECIFICATION Spec
CONSTANTS
  Threads = {"t1", "t2"}
  Methods = {"main", "work", "initD", "initE", "initF", "call", "callB", "deep", "other"}
  Program <- MixedProgram
  Handlers <- MixedHandlers
  Length = 4
  Start <- MixedStart
  Classes = {"A", "B", "D", "E", "F", "G"}
  Ready = {"A", "B"}
  Clinit <- MixedClinit
  Itable <- MixedItable
  Impl <- MixedImpl
  Bits = 2
  LibFrames = {1, 2}
  MaxInsns = 14
  MaxFrames = 6
INVARIANTS
  SignalsAnswered
  DivisionRight
  InitBeforeUse
  ResumesAtTrap
  ThrownHere
  DispatchRight
PROPERTY Finishes
CHECK_DEADLOCK FALSE
