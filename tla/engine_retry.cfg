SPECIFICATION Spec
CONSTANTS
  t1 = t1
  t2 = t2
  e1 = e1
  e2 = e2
  e3 = e3
  None = None
  Texts <- OneText
  PatchedFrames <- NoNames
  PatchedParts <- NoParts
  Separators = FALSE
  Threads <- MCThreads
  EventIds <- TwoEvents
  Branches <- MCBranches
  Main = "main"
  Modes <- MCModes
  Routes <- RenderRoutes
  Verdicts <- PassOrRetry
  MaxRetries = 2
  MaxStates = 6
  MaxCrashes = 0
INVARIANTS
  RetryExhaustionFallsBack
CHECK_DEADLOCK FALSE
