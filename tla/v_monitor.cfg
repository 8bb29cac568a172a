SPECIFICATION Spec
CONSTANTS
  Methods = {"main", "wide", "plain", "tiny", "jni", "nmi"}
  Info <- MixedInfo
  Root = "main"
  Inlined <- SyncInlined
  Lazy = TRUE
  Others = {}
  Builds <- MixedBuilds
  MaxCalls = 3
  MaxDepth = 9
  StackWords = 20
INVARIANT MonitorsBalanced
CHECK_DEADLOCK FALSE
