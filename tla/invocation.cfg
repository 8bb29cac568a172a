SPECIFICATION Spec
CONSTANTS
  Methods = {"main", "wide", "plain", "tiny", "jni", "nmi"}
  Info <- MixedInfo
  Root = "main"
  Inlined <- MixedInlined
  Lazy = TRUE
  Others = {"plain"}
  Builds <- MixedBuilds
  MaxCalls = 3
  MaxDepth = 9
  StackWords = 22
INVARIANTS
  RunsOnce
  ArgsDelivered
  VariablesKept
  ResultDelivered
  MonitorsBalanced
  WalkComplete
  OptopBalanced
CHECK_DEADLOCK FALSE
