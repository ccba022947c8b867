SPECIFICATION Spec
CONSTANTS
  t1 = t1
  t2 = t2
  e1 = e1
  e2 = e2
  e3 = e3
  None = None
  Texts <- OneText
  PatchedFrames <- NoNames
  PatchedParts <- NoParts
  Separators = TRUE
  Threads <- MCThreads
  EventIds <- TwoEvents
  Branches <- MCBranches
  Main = "main"
  Modes <- NativeOnly
  Routes <- PacketRoutes
  Verdicts <- PassOrRetry
  MaxRetries = 1
  MaxStates = 3
  MaxCrashes = 1
INVARIANTS
  TypeOK
  LogIsSound
  AtMostOnceCommit
  EventsAreBacked
SYMMETRY Symmetry
CHECK_DEADLOCK FALSE
