SPECIFICATION Spec
CONSTANTS
  Threads = {"t1"}
  Methods = {"main"}
  Program <- InlinedProgram
  Handlers <- NoHandlers
  Length = 4
  Start <- OneStart
  Classes = {"A", "B", "D", "E", "F", "G"}
  Ready = {"A", "B"}
  Clinit <- MixedClinit
  Itable <- NoItable
  Impl <- NoImpl
  Bits = 2
  LibFrames = {1}
  MaxInsns = 14
  MaxFrames = 6
INVARIANT SignalsAnswered
CHECK_DEADLOCK FALSE
